---- MODULE Spec2Model ----
(***************************************************************************)
(* Matter codecs of every-types: the ENUM codec (src/src/enum_matter.rs)   *)
(* and the PERM codec (src/src/perm_matter.rs), modelled byte for byte,    *)
(* and the element picker built on them (src/src/elem_picker.rs, with its  *)
(* sibling src/src/elem_resolver.rs): flags, picker programs, resolve and  *)
(* patch.                                                                  *)
(*                                                                         *)
(* A blob (&[u8]) is [len, head, seed]: `head` holds its first bytes       *)
(* explicitly (the header), every later byte p is Fill(seed, p).  A        *)
(* Vec<u8> copied out of a blob (`blob[a..b].to_vec()`) is [src, from, to].*)
(* A Result is [tag |-> "Ok", val |-> v] or [tag |-> "Err", val |-> e]; a  *)
(* Rust panic is [tag |-> "Panic", val |-> message].                       *)
(***************************************************************************)
EXTENDS Integers, Sequences, FiniteSets, TLC

VARIABLES blob, pc, parsed, call, sent, wire, env, picker, log

vars == <<blob, pc, parsed, call, sent, wire, env, picker, log>>

codecVars == <<blob, pc, parsed>>

wireVars == <<sent, wire>>

resolveVars == <<env, picker, log>>

----------------------------------------------------------------------------
(* Bounds of the model.                                                    *)

MaxAux == 2

MaxCols == 2

MaxRows == 2

BigRows == 20480

MaxPermAux == 1

MaxPermCols == 3

MaxHeight == 3

MaxPermRow == 5

MaxPicks == 3

MaxId == 2

MaxRev == 2

MaxPrev == 17

MaxElems == 3

----------------------------------------------------------------------------
(* Program constants.                                                      *)

CELL_SIZE == 32

HEADER_SIZE == 32

HEADER_SIZE_MIN == 32

HEADER_SIZE_MAX == 64

MATTER_BLOB_MAX == 1024 * 1024 * 10

ENUM_MAGIC == <<69, 78, 85, 77>>

PERM_MAGIC == <<80, 69, 82, 77>>

----------------------------------------------------------------------------
(* Results, bytes and byte vectors.                                        *)

Ok(v) == [tag |-> "Ok", val |-> v]

Err(kind, info) == [tag |-> "Err", val |-> [kind |-> kind, info |-> info]]

Panic(msg) == [tag |-> "Panic", val |-> msg]

None == [tag |-> "None", val |-> <<>>]

IsOk(r) == r.tag = "Ok"

IsErr(r, kind) == r.tag = "Err" /\ r.val.kind = kind

Hi4(b) == b \div 16

Lo4(b) == b % 16

U16LE(lo, hi) == lo + 256 * hi

Fill(seed, p) == (seed + p + 7 * (p \div CELL_SIZE)) % 256

BlobAt(b, p) == IF p < Len(b.head) THEN b.head[p + 1] ELSE Fill(b.seed, p)

BlobBytes(b, from, to) == [i \in 1..(to - from) |-> BlobAt(b, from + i - 1)]

\* blob.get(from..to): None unless from <= to <= blob.len()
BlobGet(b, from, to) ==
    IF from <= to /\ to <= b.len THEN Ok([src |-> b, from |-> from, to |-> to]) ELSE None

VecLen(v) == v.to - v.from

\* vec.get(offset..end) as a sequence of bytes
VecGet(v, offset, end) ==
    IF offset <= end /\ end <= VecLen(v)
    THEN Ok(BlobBytes(v.src, v.from + offset, v.from + end))
    ELSE None

\* usize checked_mul / checked_add: every operand of the codecs is bounded
\* (aux <= 8, cols <= 16, rows and heights < 2^16), so no result reaches
\* usize::MAX and the Overflow branch is never taken.
CheckedMul(a, b) == a * b

CheckedAdd(a, b) == a + b

\* BadLayout without the test of the padding tail.
BadLayout_ActiveOnly(types, n) == \E i \in 1..n : types[i] = 0

\* slice.split_at(n) followed by
\* active.iter().any(|&t| t == 0) || pad.iter().any(|&t| t != 0)
BadLayout(types, n) ==
    \/ \E i \in 1..n : types[i] = 0
    \/ \E i \in (n + 1)..Len(types) : types[i] # 0

\* SimpleMatter::test (src/src/emtys.rs): the type bytes 0x01..=0xDF.
SimpleMatter_test(e) == e \in 1..223

----------------------------------------------------------------------------
(* ENUM codec.                                                             *)

EnumMatterHeader_from_ColsBeforeAux(b) ==
    IF b.len < HEADER_SIZE THEN Err("BadHeader", <<>>)
    ELSE LET magic == BlobBytes(b, 0, 4)
             ver_aux == BlobAt(b, 4)
             ver == Hi4(ver_aux)
             aux == Lo4(ver_aux)
             cols == BlobAt(b, 5)
             rows == U16LE(BlobAt(b, 6), BlobAt(b, 7))
             aux_types == BlobBytes(b, 8, 16)
             col_types == BlobBytes(b, 16, 32)
         IN  IF magic # ENUM_MAGIC THEN Err("BadMagic", magic)
             ELSE IF ver # 1 THEN Err("BadVersion", <<ver>>)
             ELSE IF cols > 16 THEN Err("BadColCount", <<cols>>)
             ELSE IF aux > 8 THEN Err("BadAuxCount", <<aux>>)
             ELSE IF BadLayout(aux_types, aux) THEN Err("BadAuxTypes", <<>>)
             ELSE IF BadLayout(col_types, cols) THEN Err("BadColTypes", <<>>)
             ELSE Ok([magic |-> magic, ver_aux |-> ver_aux, cols |-> cols,
                      rows |-> rows, aux_types |-> aux_types,
                      col_types |-> col_types])

EnumMatterHeader_from(b) ==
    IF b.len < HEADER_SIZE THEN Err("BadHeader", <<>>)
    ELSE LET magic == BlobBytes(b, 0, 4)
             ver_aux == BlobAt(b, 4)
             ver == Hi4(ver_aux)
             aux == Lo4(ver_aux)
             cols == BlobAt(b, 5)
             rows == U16LE(BlobAt(b, 6), BlobAt(b, 7))
             aux_types == BlobBytes(b, 8, 16)
             col_types == BlobBytes(b, 16, 32)
         IN  IF magic # ENUM_MAGIC THEN Err("BadMagic", magic)
             ELSE IF ver # 1 THEN Err("BadVersion", <<ver>>)
             ELSE IF aux > 8 THEN Err("BadAuxCount", <<aux>>)
             ELSE IF cols > 16 THEN Err("BadColCount", <<cols>>)
             ELSE IF BadLayout(aux_types, aux) THEN Err("BadAuxTypes", <<>>)
             ELSE IF BadLayout(col_types, cols) THEN Err("BadColTypes", <<>>)
             ELSE Ok([magic |-> magic, ver_aux |-> ver_aux, cols |-> cols,
                      rows |-> rows, aux_types |-> aux_types,
                      col_types |-> col_types])

EnumHeaderAux(h) == Lo4(h.ver_aux)

\* EnumMatter::from with the row region starting where the aux region starts.
EnumMatter_from_RowsAtAuxOffset(b) ==
    LET hr == EnumMatterHeader_from(b)
    IN  IF ~IsOk(hr) THEN hr
        ELSE LET header == hr.val
                 aux_data_size == CheckedMul(EnumHeaderAux(header), CELL_SIZE)
                 row_data_size ==
                     CheckedMul(CheckedMul(header.cols, header.rows), CELL_SIZE)
                 expect_len ==
                     CheckedAdd(CheckedAdd(HEADER_SIZE, aux_data_size), row_data_size)
                 aux_offset == HEADER_SIZE
                 aux_end == aux_offset + aux_data_size
                 row_offset == aux_offset
                 row_end == row_offset + row_data_size
             IN  IF b.len # expect_len
                 THEN Err("BadBody", <<expect_len, b.len>>)
                 ELSE Ok([header |-> header,
                          aux_data |-> [src |-> b, from |-> aux_offset, to |-> aux_end],
                          row_data |-> [src |-> b, from |-> row_offset, to |-> row_end]])

\* EnumMatter::from that rejects only a blob shorter than expected.
EnumMatter_from_AcceptsTrailing(b) ==
    LET hr == EnumMatterHeader_from(b)
    IN  IF ~IsOk(hr) THEN hr
        ELSE LET header == hr.val
                 aux_data_size == CheckedMul(EnumHeaderAux(header), CELL_SIZE)
                 row_data_size ==
                     CheckedMul(CheckedMul(header.cols, header.rows), CELL_SIZE)
                 expect_len ==
                     CheckedAdd(CheckedAdd(HEADER_SIZE, aux_data_size), row_data_size)
                 aux_end == HEADER_SIZE + aux_data_size
             IN  IF b.len < expect_len
                 THEN Err("BadBody", <<expect_len, b.len>>)
                 ELSE Ok([header |-> header,
                          aux_data |-> [src |-> b, from |-> HEADER_SIZE, to |-> aux_end],
                          row_data |-> [src |-> b, from |-> aux_end,
                                        to |-> aux_end + row_data_size]])

EnumMatter_from(b) ==
    LET hr == EnumMatterHeader_from(b)
    IN  IF ~IsOk(hr) THEN hr
        ELSE LET header == hr.val
                 aux_data_size == CheckedMul(EnumHeaderAux(header), CELL_SIZE)
                 row_data_size ==
                     CheckedMul(CheckedMul(header.cols, header.rows), CELL_SIZE)
                 expect_len ==
                     CheckedAdd(CheckedAdd(HEADER_SIZE, aux_data_size), row_data_size)
                 blob_len == b.len
                 aux_offset == HEADER_SIZE
                 aux_end == aux_offset + aux_data_size
                 row_offset == aux_end
                 row_end == row_offset + row_data_size
             IN  IF blob_len # expect_len
                 THEN Err("BadBody", <<expect_len, blob_len>>)
                 ELSE Ok([header |-> header,
                          aux_data |-> [src |-> b, from |-> aux_offset, to |-> aux_end],
                          row_data |-> [src |-> b, from |-> row_offset, to |-> row_end]])

EnumMatter_aux_at(m, index) ==
    IF index >= EnumHeaderAux(m.header) THEN Err("OobAux", <<index>>)
    ELSE LET offset == CheckedMul(index, CELL_SIZE)
             end == offset + CELL_SIZE
             slice == VecGet(m.aux_data, offset, end)
         IN  IF IsOk(slice) THEN slice ELSE Err("OobAux", <<index>>)

EnumMatter_cell_at(m, row, col) ==
    LET rows == m.header.rows
        cols == m.header.cols
    IN  IF row >= rows \/ col >= cols THEN Err("OobCell", <<row, col>>)
        ELSE LET offset == CheckedMul(CheckedAdd(CheckedMul(row, cols), col), CELL_SIZE)
                 end == offset + CELL_SIZE
                 slice == VecGet(m.row_data, offset, end)
             IN  IF IsOk(slice) THEN slice ELSE Err("OobCell", <<row, col>>)

\* The loop of row_at from column `col` on, with the running `offset` and
\* the cells pushed so far.
RECURSIVE EnumRowLoop(_, _, _, _, _)
EnumRowLoop(m, row, col, offset, out) ==
    IF col >= m.header.cols THEN Ok(out)
    ELSE LET end == CheckedAdd(offset, CELL_SIZE)
             cell == VecGet(m.row_data, offset, end)
         IN  IF ~IsOk(cell) THEN Err("OobCell", <<row, col>>)
             ELSE EnumRowLoop(m, row, col + 1, end, Append(out, cell.val))

\* row_at whose first offset is row * CELL_SIZE: the row stride is one cell.
EnumMatter_row_at_CellStride(m, row) ==
    IF row >= m.header.rows THEN Err("OobCell", <<row, 0>>)
    ELSE EnumRowLoop(m, row, 0, CheckedMul(row, CELL_SIZE), <<>>)

EnumMatter_row_at(m, row) ==
    LET rows == m.header.rows
        cols == m.header.cols
    IN  IF row >= rows THEN Err("OobCell", <<row, 0>>)
        ELSE EnumRowLoop(m, row, 0, CheckedMul(CheckedMul(row, cols), CELL_SIZE), <<>>)

----------------------------------------------------------------------------
(* PERM codec.                                                             *)

\* enum_cols & (1 << k) != 0
BitSet(x, k) == (x \div (2 ^ k)) % 2 = 1

\* u16::from_le_bytes(blob[32 + i * 2..34 + i * 2]), i counted from 0
HeightAt(b, i) == U16LE(BlobAt(b, 32 + i * 2), BlobAt(b, 33 + i * 2))

\* The column loop of PermHeader::from from column i (counted from 0) on.
\* `rows.checked_mul(col_height)` and `sum_heights.checked_add(col_height)`
\* compute a value that is only tested for overflow and then dropped: rows
\* and sum_heights keep the value they were initialised with.
RECURSIVE PermColumnLoop(_, _, _, _, _, _, _, _, _)
PermColumnLoop(cols_cnt, enum_cols, col_types, col_heights, i, col_offset, perm_idx, acc, cols) ==
    IF i >= cols_cnt THEN [cols |-> cols, rows |-> acc.rows, sum_heights |-> acc.sum_heights]
    ELSE LET col_height == col_heights[i + 1]
             perm_col == ~BitSet(enum_cols, 15 - i)
             col == [col_idx |-> i, col_type |-> col_types[i + 1], perm_col |-> perm_col,
                     perm_idx |-> perm_idx, col_offset |-> col_offset,
                     col_height |-> col_height]
             dropped_product == CheckedMul(acc.rows, col_height)
             dropped_sum == CheckedAdd(acc.sum_heights, col_height)
         IN  PermColumnLoop(cols_cnt, enum_cols, col_types, col_heights, i + 1,
                            col_offset + col_height,
                            perm_idx + (IF perm_col THEN 1 ELSE 0),
                            [rows |-> acc.rows, sum_heights |-> acc.sum_heights],
                            Append(cols, col))

PermHeader_from(b) ==
    IF b.len < HEADER_SIZE_MIN THEN Err("BadHeader", <<>>)
    ELSE LET magic == BlobBytes(b, 0, 4)
             ver_aux == BlobAt(b, 4)
             ver == Hi4(ver_aux)
             aux_cnt == Lo4(ver_aux)
             cols_cnt == BlobAt(b, 5)
             enum_cols == U16LE(BlobAt(b, 6), BlobAt(b, 7))
             aux_types == BlobBytes(b, 8, 16)
             col_types == BlobBytes(b, 16, 32)
         IN  IF magic # PERM_MAGIC THEN Err("BadMagic", magic)
             ELSE IF ver # 1 THEN Err("BadVersion", <<ver>>)
             ELSE IF aux_cnt > 8 THEN Err("BadAuxCount", <<aux_cnt>>)
             ELSE IF cols_cnt > 16 THEN Err("BadColCount", <<cols_cnt>>)
             ELSE IF BadLayout(aux_types, aux_cnt) THEN Err("BadAuxTypes", <<>>)
             ELSE IF BadLayout(col_types, cols_cnt) THEN Err("BadColTypes", <<>>)
             ELSE IF cols_cnt > 0 /\ b.len < HEADER_SIZE_MAX THEN Err("BadHeader", <<>>)
             ELSE IF cols_cnt > 0 /\ \E i \in cols_cnt..15 : HeightAt(b, i) # 0
                  THEN Err("BadColumnHeight",
                           <<CHOOSE i \in cols_cnt..15 :
                                 /\ HeightAt(b, i) # 0
                                 /\ \A j \in cols_cnt..(i - 1) : HeightAt(b, j) = 0>>)
             ELSE LET col_heights == [i \in 1..cols_cnt |-> HeightAt(b, i - 1)]
                      aux == SubSeq(aux_types, 1, aux_cnt)
                      built == PermColumnLoop(cols_cnt, enum_cols, col_types, col_heights,
                                              0, 0, 0, [rows |-> 1, sum_heights |-> 0], <<>>)
                  IN  Ok([aux |-> aux, cols |-> built.cols,
                          perm_cols |-> SelectSeq(built.cols, LAMBDA c : c.perm_col),
                          rows |-> built.rows, sum_heights |-> built.sum_heights])

PermHeader_header_end(h) == IF h.cols = <<>> THEN HEADER_SIZE_MIN ELSE HEADER_SIZE_MAX

PermHeader_aux_begin(h) == PermHeader_header_end(h)

PermHeader_aux_end(h) == PermHeader_header_end(h) + Len(h.aux) * CELL_SIZE

PermHeader_col_begin(h) == PermHeader_aux_begin(h)

PermHeader_col_end(h) == PermHeader_aux_begin(h) + h.sum_heights * CELL_SIZE

\* idxs[c] = v on a Vec: a panic unless c < idxs.len()
VecSet(idxs, c, v) ==
    IF c < Len(idxs) THEN Ok([idxs EXCEPT ![c + 1] = v])
    ELSE Panic("index out of bounds")

\* The reversed column loop of row_to_indexes, at column c (counted from 0;
\* -1 when the loop is over).  The right-hand side r % h is evaluated before
\* the assignee idxs[c].
RECURSIVE RowToIndexesLoop(_, _, _, _, _)
RowToIndexesLoop(h, row, c, r, idxs) ==
    IF c < 0 THEN Ok(idxs)
    ELSE LET ci == h.cols[c + 1]
         IN  IF ci.perm_col
             THEN IF ci.col_height = 0 THEN Panic("remainder with a divisor of zero")
                  ELSE LET set == VecSet(idxs, c, r % ci.col_height)
                       IN  IF ~IsOk(set) THEN set
                           ELSE RowToIndexesLoop(h, row, c - 1, r \div ci.col_height, set.val)
             ELSE LET set == VecSet(idxs, c, row)
                  IN  IF ~IsOk(set) THEN set
                      ELSE RowToIndexesLoop(h, row, c - 1, r, set.val)

\* Vec::with_capacity(n) is an empty vector: its length is 0.
PermHeader_row_to_indexes(h, row) ==
    IF row >= h.rows THEN Err("Overflow", <<>>)
    ELSE RowToIndexesLoop(h, row, Len(h.cols) - 1, row, <<>>)

\* The reversed column loop of row_to_index: idx is overwritten by every
\* column, whatever `col` is.
RECURSIVE RowToIndexLoop(_, _, _, _, _)
RowToIndexLoop(h, row, c, r, idx) ==
    IF c < 0 THEN Ok(idx)
    ELSE LET ci == h.cols[c + 1]
         IN  IF ci.perm_col
             THEN IF ci.col_height = 0 THEN Panic("remainder with a divisor of zero")
                  ELSE RowToIndexLoop(h, row, c - 1, r \div ci.col_height, r % ci.col_height)
             ELSE RowToIndexLoop(h, row, c - 1, r, row)

PermHeader_row_to_index(h, row, col) ==
    IF row >= h.rows \/ col >= Len(h.cols) THEN Err("Overflow", <<>>)
    ELSE RowToIndexLoop(h, row, Len(h.cols) - 1, row, 0)

PermMatter_from(b) ==
    LET hr == PermHeader_from(b)
    IN  IF ~IsOk(hr) THEN hr
        ELSE LET header == hr.val
                 aux_data == BlobGet(b, PermHeader_aux_begin(header), PermHeader_aux_end(header))
                 col_data == BlobGet(b, PermHeader_col_begin(header), PermHeader_col_end(header))
             IN  IF ~IsOk(aux_data) THEN Err("Overflow", <<>>)
                 ELSE IF ~IsOk(col_data) THEN Err("Overflow", <<>>)
                 ELSE Ok([header |-> header, aux_data |-> aux_data.val,
                          col_data |-> col_data.val])

PermMatter_cell_at(m, row, col) ==
    LET ir == PermHeader_row_to_index(m.header, row, col)
    IN  IF ~IsOk(ir) THEN ir
        ELSE LET index == ir.val
                 offset == (m.header.cols[col + 1].col_offset + index) * CELL_SIZE
                 end == offset + CELL_SIZE
                 s == VecGet(m.col_data, offset, end)
             IN  IF IsOk(s) THEN s ELSE Err("OobCell", <<col, index>>)

\* The gathering loop of row_at over idxs, at column col (counted from 0).
RECURSIVE PermRowLoop(_, _, _, _)
PermRowLoop(m, idxs, col, out) ==
    IF col >= Len(idxs) THEN Ok(out)
    ELSE LET index == idxs[col + 1]
             ci == m.header.cols[col + 1]
             offset == (ci.col_offset + index) * CELL_SIZE
             end == offset + CELL_SIZE
             cell == VecGet(m.col_data, offset, end)
         IN  IF ~IsOk(cell) THEN Err("OobCell", <<col, index>>)
             ELSE PermRowLoop(m, idxs, col + 1, Append(out, cell.val))

PermMatter_row_at(m, row) ==
    LET ir == PermHeader_row_to_indexes(m.header, row)
    IN  IF ~IsOk(ir) THEN ir
        ELSE PermRowLoop(m, ir.val, 0, <<>>)

PermMatter_aux_at(m, index) ==
    IF index >= Len(m.header.aux) THEN Err("OobAux", <<index>>)
    ELSE LET offset == index * CELL_SIZE
             end == offset + CELL_SIZE
             s == VecGet(m.aux_data, offset, end)
         IN  IF IsOk(s) THEN s ELSE Err("OobAux", <<index>>)

----------------------------------------------------------------------------
(* Collections (src/src/elem_picker.rs): a Matter is [form, blob]; a       *)
(* CollectionMatter is [variant, m] with m the parsed ENUM or PERM.        *)

MatterForm_Enum == 208

MatterForm_Perm == 209

\* Result::map_err(|_| kind): the codec's error is dropped.
MapErr(r, kind) == IF r.tag = "Err" THEN Err(kind, <<>>) ELSE r

\* Result::map(variant constructor).
MapVariant(r, variant) == IF IsOk(r) THEN Ok([variant |-> variant, m |-> r.val]) ELSE r

CollectionMatter_from_matter_ByMagic(matter) ==
    IF BlobBytes(matter.blob, 0, 4) = ENUM_MAGIC
    THEN MapVariant(MapErr(EnumMatter_from(matter.blob), "EnumMatterFrom"), "Enum")
    ELSE IF BlobBytes(matter.blob, 0, 4) = PERM_MAGIC
    THEN MapVariant(MapErr(PermMatter_from(matter.blob), "PermMatterFrom"), "Perm")
    ELSE Err("NotCollection", <<>>)

CollectionMatter_from_matter(matter) ==
    IF matter.form = MatterForm_Enum
    THEN MapVariant(MapErr(EnumMatter_from(matter.blob), "EnumMatterFrom"), "Enum")
    ELSE IF matter.form = MatterForm_Perm
    THEN MapVariant(MapErr(PermMatter_from(matter.blob), "PermMatterFrom"), "Perm")
    ELSE Err("NotCollection", <<>>)

\* usize::try_from(row) succeeds for every row of the model (row < 2^31);
\* the rows are copied out as vectors of 32-byte cells.
CollectionMatter_row_at(coll, row) ==
    IF coll.variant = "Enum"
    THEN MapErr(EnumMatter_row_at(coll.m, row), "EnumMatterRowAt")
    ELSE MapErr(PermMatter_row_at(coll.m, row), "PermMatterRowAt")

----------------------------------------------------------------------------
(* Picker flags and picker instructions (src/src/elem_picker.rs).  A u32   *)
(* is [hi, lo], its two 16-bit halves; a PickFrom is named by a string and *)
(* converted to and from its discriminant; a Bytes32 is a sequence of 32   *)
(* bytes.                                                                  *)

RECURSIVE BitAnd(_, _)
BitAnd(a, b) ==
    IF a = 0 \/ b = 0 THEN 0
    ELSE (a % 2) * (b % 2) + 2 * BitAnd(a \div 2, b \div 2)

RECURSIVE BitOr(_, _)
BitOr(a, b) ==
    IF a = 0 THEN b
    ELSE IF b = 0 THEN a
    ELSE (IF a % 2 = 1 \/ b % 2 = 1 THEN 1 ELSE 0) + 2 * BitOr(a \div 2, b \div 2)

\* !x on a u8.
NotU8(x) == 255 - x

\* x << k on a u8, k < 8: the bits shifted out are lost.
ShlU8(x, k) == (x * (2 ^ k)) % 256

\* x >> k on a u8.
ShrU8(x, k) == x \div (2 ^ k)

U32(hi, lo) == [hi |-> hi, lo |-> lo]

PickFrom == {"HereElements", "HereCollection", "SetData", "KindData", "ObjectData"}

\* `src as u8`: the discriminant of a PickFrom.
PickFrom_as_u8(src) ==
    CASE src = "HereElements" -> 0
      [] src = "HereCollection" -> 1
      [] src = "SetData" -> 2
      [] src = "KindData" -> 4
      [] src = "ObjectData" -> 8

PickFrom_from_nibble(n) ==
    CASE n = 0 -> Ok("HereElements")
      [] n = 1 -> Ok("HereCollection")
      [] n = 2 -> Ok("SetData")
      [] n = 4 -> Ok("KindData")
      [] n = 8 -> Ok("ObjectData")
      [] OTHER -> Err("InvalidElementSource", <<>>)

PickerFlags_new ==
    [mut_bits |-> 0, custom |-> FALSE, here_coll |-> FALSE, row_from |-> "HereElements"]

PickerFlags_with_here_coll(f) ==
    [f EXCEPT !.here_coll = TRUE, !.row_from = "HereCollection"]

PickerFlags_with_row_from(f, row_from) ==
    [f EXCEPT !.here_coll = (row_from = "HereCollection"), !.row_from = row_from]

PickerFlags_with_picker(f) == [f EXCEPT !.custom = TRUE]

PickerFlags_decode_CustomFromUpperBits(v) ==
    LET row_from == PickFrom_from_nibble(BitAnd(v.lo, 15))
    IN  IF ~IsOk(row_from) THEN row_from
        ELSE Ok([mut_bits |-> v.hi,
                 custom |-> BitAnd(v.lo, 65520) # 0,
                 here_coll |-> (row_from.val = "HereCollection"),
                 row_from |-> row_from.val])

PickerFlags_decode(v) ==
    LET row_from == PickFrom_from_nibble(BitAnd(v.lo, 15))
    IN  IF ~IsOk(row_from) THEN row_from
        ELSE Ok([mut_bits |-> v.hi,
                 custom |-> BitAnd(v.lo, 16) # 0,
                 here_coll |-> (row_from.val = "HereCollection"),
                 row_from |-> row_from.val])

PickerFlags_encode_CustomDropped(f) == U32(f.mut_bits, PickFrom_as_u8(f.row_from))

PickerFlags_encode(f) ==
    U32(f.mut_bits, BitOr(IF f.custom THEN 16 ELSE 0, PickFrom_as_u8(f.row_from)))

PickOne_decode(byte) ==
    LET src == PickFrom_from_nibble(ShrU8(byte, 4))
    IN  IF ~IsOk(src) THEN src ELSE Ok([src |-> src.val, idx |-> BitAnd(byte, 15)])

PickOne_encode(p) == BitOr(ShlU8(PickFrom_as_u8(p.src), 4), BitAnd(p.idx, 15))

PickOne_decode2(byte) ==
    LET src == PickFrom_from_nibble(ShrU8(NotU8(byte), 4))
    IN  IF ~IsOk(src) THEN src ELSE Ok([src |-> src.val, idx |-> BitAnd(byte, 15)])

PickOne_encode2_NotInverted(p) == BitOr(ShlU8(PickFrom_as_u8(p.src), 4), BitAnd(p.idx, 15))

PickOne_encode2(p) == BitOr(ShlU8(NotU8(PickFrom_as_u8(p.src)), 4), BitAnd(p.idx, 15))

\* The loop of PickMany::decode over bytes i..16 of the picker (1-based).
RECURSIVE PickManyDecodeLoop(_, _, _, _)
PickManyDecodeLoop(bytes, i, padded, picks) ==
    IF i > 16 THEN Ok([picks |-> picks])
    ELSE LET b == bytes[i]
         IN  IF b = 0 THEN PickManyDecodeLoop(bytes, i + 1, TRUE, picks)
             ELSE IF padded THEN Err("InvalidPickerPadding", <<>>)
             ELSE LET pick == PickOne_decode2(b)
                  IN  IF ~IsOk(pick) THEN pick
                      ELSE PickManyDecodeLoop(bytes, i + 1, padded, Append(picks, pick.val))

PickMany_decode_ZerosSkipped(bytes) ==
    PickManyDecodeLoop(SelectSeq(SubSeq(bytes, 1, 16), LAMBDA b : b # 0)
                           \o [i \in 1..16 |-> 0], 1, FALSE, <<>>)

PickMany_decode(bytes) == PickManyDecodeLoop(bytes, 1, FALSE, <<>>)

PickMany_encode_FifteenOnly(pm) ==
    [i \in 1..32 |->
        IF i <= Len(pm.picks) /\ i <= 15 THEN PickOne_encode2(pm.picks[i]) ELSE 0]

PickMany_encode(pm) ==
    [i \in 1..32 |->
        IF i <= Len(pm.picks) /\ i <= 16 THEN PickOne_encode2(pm.picks[i]) ELSE 0]

----------------------------------------------------------------------------
(* ElementPicker (src/src/elem_picker.rs).  The reader is [matters,        *)
(* snapshots]: what get_matter answers for a hash and get_snapshot for an  *)
(* (oid, rev); a key it does not hold is answered with an error.  Every    *)
(* operator that reaches the reader returns [ret, log]: its result and the *)
(* trace of pick_row invocations and reader calls up to its return.        *)

ID_SET_OF_SET == 1

ID_SET_OF_KIND == 2

Some(v) == [tag |-> "Some", val |-> v]

OID_set_oid(oid) == [universe |-> oid.universe, set |-> ID_SET_OF_SET, id |-> oid.set]

OID_kind_oid(oid, kind) == [universe |-> oid.universe, set |-> ID_SET_OF_KIND, id |-> kind]

Reader_get_matter(reader, hash) ==
    IF hash \in DOMAIN reader.matters THEN reader.matters[hash]
    ELSE Err("ItemNotFound", <<>>)

Reader_get_snapshot(reader, oid, rev) ==
    IF <<oid, rev>> \in DOMAIN reader.snapshots THEN reader.snapshots[<<oid, rev>>]
    ELSE Err("ItemNotFound", <<>>)

Traced(fn, args) == [fn |-> fn, args |-> args]

\* `let r = v; F(r)`: v is computed once and named inside F.
With(v, F(_)) == F(v)

Last(s) == s[Len(s)]

Front(s) == SubSeq(s, 1, Len(s) - 1)

ElementPicker_new_CollectionPoppedFirst(flags, elems) ==
    LET f == PickerFlags_decode(flags)
    IN  IF ~IsOk(f) THEN f
        ELSE LET here_coll ==
                     IF f.val.here_coll
                     THEN IF elems = <<>> THEN Err("NoHereCollection", <<>>)
                          ELSE Ok(Some(Last(elems)))
                     ELSE Ok(None)
                 elems1 == IF f.val.here_coll /\ elems # <<>> THEN Front(elems) ELSE elems
                 custom ==
                     IF f.val.custom
                     THEN IF elems1 = <<>> THEN Err("NoCustomPicker", <<>>)
                          ELSE LET pm == PickMany_decode(Last(elems1))
                               IN  IF IsOk(pm) THEN Ok(Some(pm.val)) ELSE pm
                     ELSE Ok(None)
                 here_elems == IF f.val.custom /\ elems1 # <<>> THEN Front(elems1) ELSE elems1
             IN  IF ~IsOk(here_coll) THEN here_coll
                 ELSE IF ~IsOk(custom) THEN custom
                 ELSE Ok([flags |-> f.val, here_elems |-> here_elems,
                          here_coll |-> here_coll.val, custom |-> custom.val])

ElementPicker_new(flags, elems) ==
    LET f == PickerFlags_decode(flags)
    IN  IF ~IsOk(f) THEN f
        ELSE LET custom ==
                     IF f.val.custom
                     THEN IF elems = <<>> THEN Err("NoCustomPicker", <<>>)
                          ELSE LET pm == PickMany_decode(Last(elems))
                               IN  IF IsOk(pm) THEN Ok(Some(pm.val)) ELSE pm
                     ELSE Ok(None)
                 elems1 == IF f.val.custom /\ elems # <<>> THEN Front(elems) ELSE elems
                 here_coll ==
                     IF f.val.here_coll
                     THEN IF elems1 = <<>> THEN Err("NoHereCollection", <<>>)
                          ELSE Ok(Some(Last(elems1)))
                     ELSE Ok(None)
                 here_elems == IF f.val.here_coll /\ elems1 # <<>> THEN Front(elems1) ELSE elems1
             IN  IF ~IsOk(custom) THEN custom
                 ELSE IF ~IsOk(here_coll) THEN here_coll
                 ELSE Ok([flags |-> f.val, here_elems |-> here_elems,
                          here_coll |-> here_coll.val, custom |-> custom.val])

ElementPicker_pick_coll_row(reader, hash, row, tr) ==
    LET log1 == Append(tr, Traced("get_matter", <<hash>>))
        matter == MapErr(Reader_get_matter(reader, hash), "StateReaderGetMatter")
    IN  IF ~IsOk(matter) THEN [ret |-> matter, log |-> log1]
        ELSE With(CollectionMatter_from_matter(matter.val), LAMBDA coll :
                 IF ~IsOk(coll) THEN [ret |-> coll, log |-> log1]
                 ELSE [ret |-> CollectionMatter_row_at(coll.val, row), log |-> log1])

PickDataRow_ElementZero(reader, data_oid, rev, row, tr) ==
    LET log1 == Append(tr, Traced("get_snapshot", <<data_oid, rev>>))
        snap == MapErr(Reader_get_snapshot(reader, data_oid, rev), "StateReaderGetSnapshot")
    IN  IF ~IsOk(snap) THEN [ret |-> snap, log |-> log1]
        ELSE IF Len(snap.val.elems) < 1
        THEN [ret |-> Panic("index out of bounds"), log |-> log1]
        ELSE ElementPicker_pick_coll_row(reader, snap.val.elems[1], row, log1)

\* The SetData and KindData arms: the snapshot, then the collection named
\* by its element 1 (`&elems[1]` panics on a shorter vector).
PickDataRow(reader, data_oid, rev, row, tr) ==
    LET log1 == Append(tr, Traced("get_snapshot", <<data_oid, rev>>))
        snap == MapErr(Reader_get_snapshot(reader, data_oid, rev), "StateReaderGetSnapshot")
    IN  IF ~IsOk(snap) THEN [ret |-> snap, log |-> log1]
        ELSE IF Len(snap.val.elems) < 2
        THEN [ret |-> Panic("index out of bounds"), log |-> log1]
        ELSE ElementPicker_pick_coll_row(reader, snap.val.elems[2], row, log1)

PickObjectRow_CurrentRev(reader, oid, desc, tr) ==
    LET log1 == Append(tr, Traced("get_snapshot", <<oid, desc.rev>>))
        snap == MapErr(Reader_get_snapshot(reader, oid, desc.rev), "StateReaderGetSnapshot")
    IN  IF ~IsOk(snap) THEN [ret |-> snap, log |-> log1]
        ELSE [ret |-> Ok(snap.val.elems), log |-> log1]

\* The ObjectData arm: the elements of the object's previous revision.
PickObjectRow(reader, oid, desc, tr) ==
    IF desc.rev <= 1 THEN [ret |-> Err("NoPreviousRevision", <<>>), log |-> tr]
    ELSE LET log1 == Append(tr, Traced("get_snapshot", <<oid, desc.rev - 1>>))
             snap == MapErr(Reader_get_snapshot(reader, oid, desc.rev - 1),
                            "StateReaderGetSnapshot")
         IN  IF ~IsOk(snap) THEN [ret |-> snap, log |-> log1]
             ELSE [ret |-> Ok(snap.val.elems), log |-> log1]

ElementPicker_pick_row(self, reader, oid, desc, src, row, tr) ==
    LET log0 == Append(tr, Traced("pick_row", <<src>>))
    IN  CASE src = "HereElements" -> [ret |-> Ok(self.here_elems), log |-> log0]
          [] src = "HereCollection" ->
                IF self.here_coll = None
                THEN [ret |-> Err("NoHereCollection", <<>>), log |-> log0]
                ELSE ElementPicker_pick_coll_row(reader, self.here_coll.val, row, log0)
          [] src = "SetData" -> PickDataRow(reader, OID_set_oid(oid), desc.srev, row, log0)
          [] src = "KindData" ->
                PickDataRow(reader, OID_kind_oid(oid, desc.kind), desc.krev, row, log0)
          [] src = "ObjectData" -> PickObjectRow(reader, oid, desc, log0)

ElementPicker_pick_row_cached_NoInsert(self, reader, oid, desc, src, row, cache, tr) ==
    With(ElementPicker_pick_row(self, reader, oid, desc, src, row, tr), LAMBDA r :
         [ret |-> r.ret, log |-> r.log, cache |-> cache])

\* The cache is a function from the sources fetched so far to their rows.
ElementPicker_pick_row_cached(self, reader, oid, desc, src, row, cache, tr) ==
    IF src \notin DOMAIN cache
    THEN With(ElementPicker_pick_row(self, reader, oid, desc, src, row, tr), LAMBDA r :
             IF ~IsOk(r.ret) THEN [ret |-> r.ret, log |-> r.log, cache |-> cache]
             ELSE [ret |-> r.ret, log |-> r.log, cache |-> (src :> r.ret.val) @@ cache])
    ELSE [ret |-> Ok(cache[src]), log |-> tr, cache |-> cache]

RECURSIVE ResolveLoop_RowFromFlags(_, _, _, _, _)
ResolveLoop_RowFromFlags(c, i, cache, elems, tr) ==
    IF i > Len(c.picks) THEN [ret |-> Ok(elems), log |-> tr]
    ELSE LET p == c.picks[i]
         IN  With(ElementPicker_pick_row_cached(c.self, c.reader, c.oid, c.desc,
                                                c.self.flags.row_from, c.row, cache, tr),
                  LAMBDA r :
                 IF ~IsOk(r.ret) THEN [ret |-> r.ret, log |-> r.log]
                 ELSE IF p.idx >= Len(r.ret.val)
                 THEN [ret |-> Err("ColOutOfBounds", <<>>), log |-> r.log]
                 ELSE ResolveLoop_RowFromFlags(c, i + 1, r.cache,
                                               Append(elems, r.ret.val[p.idx + 1]), r.log))

\* The loop of resolve over instructions i.. of the custom picker; c holds
\* the arguments of the call.
RECURSIVE ResolveLoop(_, _, _, _, _)
ResolveLoop(c, i, cache, elems, tr) ==
    IF i > Len(c.picks) THEN [ret |-> Ok(elems), log |-> tr]
    ELSE LET p == c.picks[i]
         IN  With(ElementPicker_pick_row_cached(c.self, c.reader, c.oid, c.desc,
                                                p.src, c.row, cache, tr), LAMBDA r :
                 IF ~IsOk(r.ret) THEN [ret |-> r.ret, log |-> r.log]
                 ELSE IF p.idx >= Len(r.ret.val)
                 THEN [ret |-> Err("ColOutOfBounds", <<>>), log |-> r.log]
                 ELSE ResolveLoop(c, i + 1, r.cache,
                                  Append(elems, r.ret.val[p.idx + 1]), r.log))

\* u64::saturating_sub(1).
SaturatingSub1(x) == IF x = 0 THEN 0 ELSE x - 1

ElementPicker_resolve_RowIsId(self, reader, oid, desc) ==
    IF self.custom = None
    THEN ElementPicker_pick_row(self, reader, oid, desc, self.flags.row_from, oid.id, <<>>)
    ELSE ResolveLoop([self |-> self, reader |-> reader, oid |-> oid, desc |-> desc,
                      row |-> oid.id, picks |-> self.custom.val.picks],
                     1, <<>>, <<>>, <<>>)

ElementPicker_resolve(self, reader, oid, desc) ==
    LET row_index == SaturatingSub1(oid.id)
    IN  IF self.custom = None
        THEN ElementPicker_pick_row(self, reader, oid, desc, self.flags.row_from,
                                    row_index, <<>>)
        ELSE ResolveLoop([self |-> self, reader |-> reader, oid |-> oid, desc |-> desc,
                          row |-> row_index, picks |-> self.custom.val.picks],
                         1, <<>>, <<>>, <<>>)

----------------------------------------------------------------------------
(* ElementResolver (src/src/elem_resolver.rs), the resolver with the       *)
(* ElementSource nibbles 0..5, the here_coll flag in bit 7 and picker      *)
(* bytes that are not inverted.  The reader and the trace are those of     *)
(* ElementPicker.                                                          *)

ElementSource ==
    {"Default", "SetData", "KindData", "ObjectData", "HereCollection", "HereElements"}

ElementSource_from_nibble(n) ==
    CASE n = 0 -> Ok("Default")
      [] n = 1 -> Ok("SetData")
      [] n = 2 -> Ok("KindData")
      [] n = 3 -> Ok("ObjectData")
      [] n = 4 -> Ok("HereCollection")
      [] n = 5 -> Ok("HereElements")
      [] OTHER -> Err("InvalidElementSource", <<>>)

ElementFlags_decode(v) ==
    LET lo8 == BitAnd(v.lo, 255)
        pick_row_from == ElementSource_from_nibble(BitAnd(lo8, 15))
    IN  IF ~IsOk(pick_row_from) THEN pick_row_from
        ELSE Ok([mut_bits |-> v.hi,
                 here_coll |-> BitAnd(lo8, 128) # 0,
                 custom_picker |-> BitAnd(lo8, 16) # 0,
                 pick_row_from |-> pick_row_from.val])

ResolverPickOne_from(byte) ==
    LET src == ElementSource_from_nibble(ShrU8(byte, 4))
    IN  IF ~IsOk(src) THEN src ELSE Ok([src |-> src.val, idx |-> BitAnd(byte, 15)])

\* The loop of PickOne::parse_picker over bytes i..16 of the picker.
RECURSIVE ParsePickerLoop(_, _, _, _)
ParsePickerLoop(bytes, i, padded, picks) ==
    IF i > 16 THEN Ok(picks)
    ELSE LET b == bytes[i]
         IN  IF b = 0 THEN ParsePickerLoop(bytes, i + 1, TRUE, picks)
             ELSE IF padded THEN Err("InvalidPickerPadding", <<>>)
             ELSE LET pick == ResolverPickOne_from(b)
                  IN  IF ~IsOk(pick) THEN pick
                      ELSE ParsePickerLoop(bytes, i + 1, padded, Append(picks, pick.val))

ResolverPickOne_parse_picker(bytes) == ParsePickerLoop(bytes, 1, FALSE, <<>>)

ElementResolver_new(flags, elems) ==
    LET f == ElementFlags_decode(flags)
    IN  IF ~IsOk(f) THEN f
        ELSE LET custom_picker ==
                     IF f.val.custom_picker
                     THEN IF elems = <<>> THEN Err("NoCustomPicker", <<>>)
                          ELSE LET picks == ResolverPickOne_parse_picker(Last(elems))
                               IN  IF IsOk(picks) THEN Ok(Some(picks.val)) ELSE picks
                     ELSE Ok(None)
                 elems1 == IF f.val.custom_picker /\ elems # <<>> THEN Front(elems) ELSE elems
                 here_coll ==
                     IF f.val.here_coll
                     THEN IF elems1 = <<>> THEN Err("NoHereCollection", <<>>)
                          ELSE Ok(Some(Last(elems1)))
                     ELSE Ok(None)
                 here_elems == IF f.val.here_coll /\ elems1 # <<>> THEN Front(elems1) ELSE elems1
             IN  IF ~IsOk(custom_picker) THEN custom_picker
                 ELSE IF ~IsOk(here_coll) THEN here_coll
                 ELSE Ok([flags |-> f.val, here_elems |-> here_elems,
                          here_coll |-> here_coll.val, custom_picker |-> custom_picker.val])

ElementResolver_row_from_collection(reader, hash, row, tr) ==
    LET log1 == Append(tr, Traced("get_matter", <<hash>>))
        matter == MapErr(Reader_get_matter(reader, hash), "StateReaderGetMatter")
    IN  IF ~IsOk(matter) THEN [ret |-> matter, log |-> log1]
        ELSE With(CollectionMatter_from_matter(matter.val), LAMBDA coll :
                 IF ~IsOk(coll) THEN [ret |-> coll, log |-> log1]
                 ELSE [ret |-> CollectionMatter_row_at(coll.val, row), log |-> log1])

\* The SetData and KindData arms of row_from_source.
ResolverDataRow(reader, data_oid, rev, row, tr) ==
    LET log1 == Append(tr, Traced("get_snapshot", <<data_oid, rev>>))
        snap == MapErr(Reader_get_snapshot(reader, data_oid, rev), "StateReaderGetSnapshot")
    IN  IF ~IsOk(snap) THEN [ret |-> snap, log |-> log1]
        ELSE IF Len(snap.val.elems) < 2
        THEN [ret |-> Panic("index out of bounds"), log |-> log1]
        ELSE ElementResolver_row_from_collection(reader, snap.val.elems[2], row, log1)

ElementResolver_row_from_source(self, reader, oid, desc, src, row, tr) ==
    LET log0 == Append(tr, Traced("row_from_source", <<src>>))
    IN  CASE src \in {"Default", "HereElements"} -> [ret |-> Ok(self.here_elems), log |-> log0]
          [] src = "HereCollection" ->
                IF self.here_coll = None
                THEN [ret |-> Err("NoHereCollection", <<>>), log |-> log0]
                ELSE ElementResolver_row_from_collection(reader, self.here_coll.val, row, log0)
          [] src = "ObjectData" ->
                IF desc.rev <= 1
                THEN [ret |-> Err("NoPreviousRevision", <<>>), log |-> log0]
                ELSE LET log1 == Append(log0, Traced("get_snapshot", <<oid, desc.rev - 1>>))
                         snap == MapErr(Reader_get_snapshot(reader, oid, desc.rev - 1),
                                        "StateReaderGetSnapshot")
                     IN  IF ~IsOk(snap) THEN [ret |-> snap, log |-> log1]
                         ELSE [ret |-> Ok(snap.val.elems), log |-> log1]
          [] src = "SetData" -> ResolverDataRow(reader, OID_set_oid(oid), desc.srev, row, log0)
          [] src = "KindData" ->
                ResolverDataRow(reader, OID_kind_oid(oid, desc.kind), desc.krev, row, log0)

\* The loop of ElementResolver::resolve over instructions i..; a row is
\* cached once its instruction has picked an element from it.
RECURSIVE ResolverLoop(_, _, _, _, _)
ResolverLoop(c, i, cache, out, tr) ==
    IF i > Len(c.picks) THEN [ret |-> Ok(out), log |-> tr]
    ELSE LET p == c.picks[i]
         IN  IF p.src \in DOMAIN cache
             THEN IF p.idx >= Len(cache[p.src])
                  THEN [ret |-> Err("ColOutOfBounds", <<>>), log |-> tr]
                  ELSE ResolverLoop(c, i + 1, cache, Append(out, cache[p.src][p.idx + 1]), tr)
             ELSE With(ElementResolver_row_from_source(c.self, c.reader, c.oid, c.desc,
                                                       p.src, c.row, tr), LAMBDA r :
                      IF ~IsOk(r.ret) THEN r
                      ELSE IF p.idx >= Len(r.ret.val)
                      THEN [ret |-> Err("ColOutOfBounds", <<>>), log |-> r.log]
                      ELSE ResolverLoop(c, i + 1, (p.src :> r.ret.val) @@ cache,
                                        Append(out, r.ret.val[p.idx + 1]), r.log))

ElementResolver_resolve(self, reader, oid, desc) ==
    LET row_index == SaturatingSub1(oid.id)
    IN  IF self.custom_picker = None
        THEN ElementResolver_row_from_source(self, reader, oid, desc,
                                             self.flags.pick_row_from, row_index, <<>>)
        ELSE ResolverLoop([self |-> self, reader |-> reader, oid |-> oid, desc |-> desc,
                           row |-> row_index, picks |-> self.custom_picker.val],
                          1, <<>>, <<>>, <<>>)

----------------------------------------------------------------------------
(* ElementPicker::patch.                                                   *)

RECURSIVE CountOnes(_)
CountOnes(x) == IF x = 0 THEN 0 ELSE (x % 2) + CountOnes(x \div 2)

\* !x on a u16.
NotU16(x) == 65535 - x

\* x << k on a u16, k < 16: the bits shifted out are lost.
ShlU16(x, k) == (x * (2 ^ k)) % 65536

RECURSIVE PatchLoop_ResolvedByLsb(_, _, _, _, _)
PatchLoop_ResolvedByLsb(prev, resolved, mut_bits, i, j) ==
    IF i >= Len(prev) THEN Ok(prev)
    ELSE IF BitAnd(mut_bits, ShlU16(1, i)) # 0
    THEN IF j >= Len(resolved) THEN Panic("index out of bounds")
         ELSE PatchLoop_ResolvedByLsb([prev EXCEPT ![i + 1] = resolved[j + 1]], resolved,
                                      mut_bits, i + 1, j + 1)
    ELSE PatchLoop_ResolvedByLsb(prev, resolved, mut_bits, i + 1, j)

\* The loop of patch over slots i..n-1; j counts the resolved elements used.
RECURSIVE PatchLoop(_, _, _, _, _)
PatchLoop(prev, resolved, mut_bits, i, j) ==
    IF i >= Len(prev) THEN Ok(prev)
    ELSE IF BitAnd(mut_bits, ShlU16(1, 15 - i)) # 0
    THEN IF j >= Len(resolved) THEN Panic("index out of bounds")
         ELSE PatchLoop([prev EXCEPT ![i + 1] = resolved[j + 1]], resolved,
                        mut_bits, i + 1, j + 1)
    ELSE PatchLoop(prev, resolved, mut_bits, i + 1, j)

\* `!0u16 << (16 - n)` shifts a u16 by 16 when n = 0: a build with overflow
\* checks (debug, test) panics there, a build without them shifts by
\* 16 mod 16 = 0.  overflow_checks says which build runs.
ElementPicker_patch(prev, resolved, flags_mut_bits, overflow_checks) ==
    LET n == Len(prev)
    IN  IF n > 16 THEN Err("InvalidElementLength", <<>>)
        ELSE IF 16 - n >= 16 /\ overflow_checks
        THEN Panic("attempt to shift left with overflow")
        ELSE LET mask == ShlU16(NotU16(0), (16 - n) % 16)
                 mut_bits == BitAnd(flags_mut_bits, mask)
             IN  IF mut_bits # flags_mut_bits THEN Err("InvalidMutBits", <<>>)
                 ELSE IF mut_bits = 0
                 THEN IF Len(resolved) # n THEN Err("ResultLengthMismatch", <<>>)
                      ELSE Ok(resolved)
                 ELSE IF Len(resolved) # CountOnes(mut_bits)
                 THEN Err("ResultLengthMismatch", <<>>)
                 ELSE PatchLoop(prev, resolved, mut_bits, 0, 0)

----------------------------------------------------------------------------
(* Input blobs.  A blob is built from the header fields a writer would     *)
(* set, a defect of each type array, and a length that differs from the    *)
(* documented size by LenDeltas.                                           *)

Min(a, b) == IF a < b THEN a ELSE b

Seeds == {7, 113}

INFO == 255

JSON == 1

BAD_MAGIC == <<69, 78, 85, 88>>

LenDeltas == {0 - CELL_SIZE, 0 - 1, 0, 1, CELL_SIZE}

Defects == {"none", "hole_first", "hole_last", "tail_first", "tail_last"}

\* A type array of `total` bytes, left-packed with n bytes t, with a defect:
\* a zero in the active prefix or a non-zero in the padding tail.
TypeArr(n, total, t, defect) ==
    [i \in 1..total |->
        IF defect = "hole_first" /\ i = 1 /\ n >= 1 THEN 0
        ELSE IF defect = "hole_last" /\ i = n THEN 0
        ELSE IF defect = "tail_first" /\ i = n + 1 THEN t
        ELSE IF defect = "tail_last" /\ i = total /\ n < total THEN t
        ELSE IF i <= n THEN t ELSE 0]

Header32(magic, ver, aux, cols, w16, aux_types, col_types) ==
    magic \o <<ver * 16 + aux, cols, w16 % 256, w16 \div 256>> \o aux_types \o col_types

\* The heights block of a PERM: 16 u16 LE, `tail` in the last slot.
HeightsBlock(heights, tail) ==
    [k \in 1..32 |->
        LET i == (k - 1) \div 2
            h == IF i < Len(heights) THEN heights[i + 1]
                 ELSE IF i = 15 THEN tail ELSE 0
        IN  IF k % 2 = 1 THEN h % 256 ELSE h \div 256]

MkBlob(head, len, seed) ==
    [len |-> len, head |-> SubSeq(head, 1, Min(len, Len(head))), seed |-> seed]

RECURSIVE SumSeq(_)
SumSeq(s) == IF s = <<>> THEN 0 ELSE Head(s) + SumSeq(Tail(s))

AuxChoices == (0..MaxAux) \cup {8, 9}

ColChoices == (0..MaxCols) \cup {16, 17}

RowChoices == (0..MaxRows) \cup {BigRows}

\* ENUM blobs: every header field within the choices, sized by the header.
EnumBlobs(b) ==
    \E magic \in {ENUM_MAGIC, BAD_MAGIC}, ver \in {1, 2}, aux \in AuxChoices,
       cols \in ColChoices, rows \in RowChoices, ad \in Defects, cd \in Defects,
       d \in LenDeltas, seed \in Seeds :
        b = MkBlob(Header32(magic, ver, aux, cols, rows,
                            TypeArr(Min(aux, 8), 8, INFO, ad),
                            TypeArr(Min(cols, 16), 16, JSON, cd)),
                   HEADER_SIZE + (aux + rows * cols) * CELL_SIZE + d, seed)

\* Type bytes for an aux slot: JSON and 0xDF (simple matter), 0xE0 (Enum, a
\* complex matter), 0xF1 (Set, a meta object) and INFO.
AuxTypeChoices == {JSON, 223, 224, 241, INFO}

\* ENUM blobs of the documented size whose first aux type is any of the
\* type bytes; the other active aux types are INFO.
AuxTypeBlobs(b) ==
    \E aux \in 1..MaxAux, t \in AuxTypeChoices, cols \in {0, 1}, seed \in Seeds :
        b = MkBlob(Header32(ENUM_MAGIC, 1, aux, cols, 1,
                            [i \in 1..8 |-> IF i = 1 THEN t ELSE IF i <= aux THEN INFO ELSE 0],
                            TypeArr(cols, 16, JSON, "none")),
                   HEADER_SIZE + (aux + cols) * CELL_SIZE, seed)

\* Blobs too short to hold a header.
ShortBlobs(b) ==
    \E magic \in {ENUM_MAGIC, PERM_MAGIC, BAD_MAGIC}, len \in {0, HEADER_SIZE - 1},
       seed \in Seeds :
        b = MkBlob(Header32(magic, 1, 0, 0, 0, TypeArr(0, 8, INFO, "none"),
                            TypeArr(0, 16, JSON, "none")), len, seed)

\* The documented size of a PERM blob.
PermSize(aux, cols, sum_heights) ==
    (IF cols = 0 THEN HEADER_SIZE_MIN ELSE HEADER_SIZE_MAX)
        + (sum_heights + aux) * CELL_SIZE

\* PERM blobs with header defects; every column has height 1.
PermHeaderBlobs(b) ==
    \E ver \in {1, 2}, aux \in {0, 1, 9}, cols \in {0, 2, 17},
       ad \in Defects, cd \in Defects, tail \in {0, 1},
       lc \in {"min", "short", "full"}, seed \in Seeds :
        b = MkBlob(Header32(PERM_MAGIC, ver, aux, cols, 0,
                            TypeArr(Min(aux, 8), 8, INFO, ad),
                            TypeArr(Min(cols, 16), 16, JSON, cd))
                       \o HeightsBlock([i \in 1..Min(cols, 16) |-> 1], tail),
                   (CASE lc = "min" -> HEADER_SIZE_MIN
                      [] lc = "short" -> HEADER_SIZE_MAX - 1
                      [] lc = "full" -> PermSize(aux, cols, Min(cols, 16))),
                   seed)

\* enum_cols bitmaps: no enum column, or column 1 an enum column.
EnumColsChoices == {0, 2 ^ 14}

\* PERM blobs with a valid header: every shape within the bounds.
PermBlobs(b) ==
    \E cols \in 0..MaxPermCols :
        \E heights \in [1..cols -> 0..MaxHeight], aux \in 0..MaxPermAux,
           enum_cols \in EnumColsChoices, d \in LenDeltas, seed \in Seeds :
            b = MkBlob(Header32(PERM_MAGIC, 1, aux, cols, enum_cols,
                                TypeArr(aux, 8, INFO, "none"),
                                TypeArr(cols, 16, JSON, "none"))
                           \o HeightsBlock(heights, 0),
                       PermSize(aux, cols, SumSeq(heights)) + d, seed)

NoCall == [op |-> "none", args |-> <<>>, ret |-> None]

Called(op, args, ret) == [op |-> op, args |-> args, ret |-> ret]

NoWire == sent = None /\ wire = None

NoResolve == env = None /\ picker = None /\ log = <<>>

----------------------------------------------------------------------------
(* The codecs as a state machine: a blob is parsed once, then read once    *)
(* (a parsed matter is immutable, so one read does not change the next).   *)

Init ==
    /\ (EnumBlobs(blob) \/ ShortBlobs(blob) \/ PermHeaderBlobs(blob) \/ AuxTypeBlobs(blob))
    /\ pc = "input"
    /\ parsed = None
    /\ call = NoCall
    /\ NoWire
    /\ NoResolve

InitPerm ==
    /\ PermBlobs(blob)
    /\ pc = "input"
    /\ parsed = None
    /\ call = NoCall
    /\ NoWire
    /\ NoResolve

CallEnumFrom ==
    /\ pc = "input"
    /\ pc' = "enum"
    /\ parsed' = EnumMatter_from(blob)
    /\ UNCHANGED <<blob, call, env>>
    /\ UNCHANGED <<wireVars, picker, log>>

CallPermFrom ==
    /\ pc = "input"
    /\ pc' = "perm"
    /\ parsed' = PermMatter_from(blob)
    /\ UNCHANGED <<blob, call, env>>
    /\ UNCHANGED <<wireVars, picker, log>>

EnumRowArgs == (0..(MaxRows + 1)) \cup {BigRows - 1, BigRows}

EnumColArgs == (0..(MaxCols + 1)) \cup {15, 16}

CallEnumAuxAt ==
    /\ pc = "enum" /\ IsOk(parsed) /\ call = NoCall
    /\ \E index \in 0..(MaxAux + 1) :
           call' = Called("aux_at", <<index>>, EnumMatter_aux_at(parsed.val, index))
    /\ UNCHANGED <<codecVars, wireVars, resolveVars>>

CallEnumCellAt ==
    /\ pc = "enum" /\ IsOk(parsed) /\ call = NoCall
    /\ \E row \in EnumRowArgs, col \in EnumColArgs :
           call' = Called("cell_at", <<row, col>>, EnumMatter_cell_at(parsed.val, row, col))
    /\ UNCHANGED <<codecVars, wireVars, resolveVars>>

CallEnumRowAt ==
    /\ pc = "enum" /\ IsOk(parsed) /\ call = NoCall
    /\ \E row \in EnumRowArgs :
           call' = Called("row_at", <<row>>, EnumMatter_row_at(parsed.val, row))
    /\ UNCHANGED <<codecVars, wireVars, resolveVars>>

CallPermAuxAt ==
    /\ pc = "perm" /\ IsOk(parsed) /\ call = NoCall
    /\ \E index \in 0..(MaxPermAux + 1) :
           call' = Called("aux_at", <<index>>, PermMatter_aux_at(parsed.val, index))
    /\ UNCHANGED <<codecVars, wireVars, resolveVars>>

CallPermRowToIndexes ==
    /\ pc = "perm" /\ IsOk(parsed) /\ call = NoCall
    /\ \E row \in 0..MaxPermRow :
           call' = Called("row_to_indexes", <<row>>,
                          PermHeader_row_to_indexes(parsed.val.header, row))
    /\ UNCHANGED <<codecVars, wireVars, resolveVars>>

CallPermRowToIndex ==
    /\ pc = "perm" /\ IsOk(parsed) /\ call = NoCall
    /\ \E row \in 0..MaxPermRow, col \in 0..MaxPermCols :
           call' = Called("row_to_index", <<row, col>>,
                          PermHeader_row_to_index(parsed.val.header, row, col))
    /\ UNCHANGED <<codecVars, wireVars, resolveVars>>

CallPermCellAt ==
    /\ pc = "perm" /\ IsOk(parsed) /\ call = NoCall
    /\ \E row \in 0..MaxPermRow, col \in 0..MaxPermCols :
           call' = Called("cell_at", <<row, col>>, PermMatter_cell_at(parsed.val, row, col))
    /\ UNCHANGED <<codecVars, wireVars, resolveVars>>

CallPermRowAt ==
    /\ pc = "perm" /\ IsOk(parsed) /\ call = NoCall
    /\ \E row \in 0..MaxPermRow :
           call' = Called("row_at", <<row>>, PermMatter_row_at(parsed.val, row))
    /\ UNCHANGED <<codecVars, wireVars, resolveVars>>

Next ==
    \/ CallEnumFrom
    \/ CallPermFrom
    \/ CallEnumAuxAt
    \/ CallEnumCellAt
    \/ CallEnumRowAt

Spec == Init /\ [][Next]_vars

NextPerm ==
    \/ CallPermFrom
    \/ CallPermAuxAt
    \/ CallPermRowToIndexes
    \/ CallPermRowToIndex
    \/ CallPermCellAt
    \/ CallPermRowAt

SpecPerm == InitPerm /\ [][NextPerm]_vars

----------------------------------------------------------------------------
(* Collections as a state machine: a matter (form byte and blob) is        *)
(* loaded with CollectionMatter::from_matter, then one row is read.        *)

\* Form bytes: Json, Wasm, Enum, Perm, and a byte that names no form.
Forms == {1, 192, MatterForm_Enum, MatterForm_Perm, 255}

InitColl ==
    /\ (EnumBlobs(blob) \/ ShortBlobs(blob) \/ PermHeaderBlobs(blob))
    /\ blob.seed = 7
    /\ pc = "input"
    /\ parsed = None
    /\ call = NoCall
    /\ NoWire
    /\ \E form \in Forms : env = [form |-> form]
    /\ picker = None
    /\ log = <<>>

CallFromMatter ==
    /\ pc = "input"
    /\ pc' = "coll"
    /\ parsed' = CollectionMatter_from_matter([form |-> env.form, blob |-> blob])
    /\ UNCHANGED <<blob, call, env>>
    /\ UNCHANGED <<wireVars, picker, log>>

CallCollRowAt ==
    /\ pc = "coll" /\ IsOk(parsed) /\ call = NoCall
    /\ \E row \in 0..(MaxRows + 1) :
           call' = Called("row_at", <<row>>, CollectionMatter_row_at(parsed.val, row))
    /\ UNCHANGED <<codecVars, wireVars, resolveVars>>

NextColl ==
    \/ CallFromMatter
    \/ CallCollRowAt

SpecColl == InitColl /\ [][NextColl]_vars

----------------------------------------------------------------------------
(* The picker wire formats as a state machine.  `sent` is the value a      *)
(* writer holds (PickerFlags built with new / with_* / decode, a PickOne,  *)
(* a PickMany), `wire` its encoding or a word, byte or buffer received     *)
(* from elsewhere, `call` the last decode.                                 *)

NoCodec == blob = None /\ pc = "idle" /\ parsed = None

Value(kind, val) == [kind |-> kind, val |-> val]

OnWire(kind, via, val) == [kind |-> kind, via |-> via, val |-> val]

\* mut_bits halves: none, the LSB, the MSB, slots 0 and 2, all.
MutBitsChoices == {0, 1, 32768, 40960, 65535}

\* Flag words: every low nibble, the custom bit, reserved bits 5..15.
FlagWords(w) ==
    \E hi \in MutBitsChoices, n \in 0..15, c \in {0, 16}, r \in {0, 32, 65504} :
        w = OnWire("u32", "received", U32(hi, n + c + r))

\* Instruction bytes: padding, one instruction of each source, bytes whose
\* inverted high nibble names no source (0x10, 0x0F), and 0xFF.
InstrBytes == {0, 240, 225, 210, 179, 127, 16, 15, 255}

\* Picker buffers: MaxPicks leading bytes, the last byte of the first 16,
\* the first byte after them; zero elsewhere.
PickerBuffers(w) ==
    \E prog \in [1..MaxPicks -> InstrBytes], b16 \in {0, 241}, b17 \in {0, 16} :
        w = OnWire("picker", "received",
                   [i \in 1..32 |->
                       IF i <= MaxPicks THEN prog[i]
                       ELSE IF i = 16 THEN b16
                       ELSE IF i = 17 THEN b17 ELSE 0])

PickChoices == [src : PickFrom, idx : {0, 1, 15}]

\* Programs of up to MaxPicks instructions, and full programs of 16
\* instructions that alternate between two instructions.
Programs(v) ==
    \/ \E n \in 0..MaxPicks :
           \E picks \in [1..n -> PickChoices] : v = Value("picks", [picks |-> picks])
    \/ \E p \in PickChoices, q \in PickChoices :
           v = Value("picks", [picks |-> [i \in 1..16 |-> IF i % 2 = 1 THEN p ELSE q]])

InitWire ==
    /\ NoCodec
    /\ NoResolve
    /\ call = NoCall
    /\ \/ sent = Value("flags", PickerFlags_new) /\ wire = None
       \/ FlagWords(wire) /\ sent = None
       \/ \E src \in PickFrom, idx \in 0..15 :
              sent = Value("pick", [src |-> src, idx |-> idx]) /\ wire = None
       \/ \E b \in 0..255 : wire = OnWire("byte", "received", b) /\ sent = None
       \/ Programs(sent) /\ wire = None
       \/ PickerBuffers(wire) /\ sent = None

Building == sent # None /\ sent.kind = "flags" /\ wire = None

FlagsWithHereColl ==
    /\ Building
    /\ sent' = Value("flags", PickerFlags_with_here_coll(sent.val))
    /\ call' = NoCall
    /\ UNCHANGED <<codecVars, wire, resolveVars>>

FlagsWithRowFrom ==
    /\ Building
    /\ \E row_from \in PickFrom :
           sent' = Value("flags", PickerFlags_with_row_from(sent.val, row_from))
    /\ call' = NoCall
    /\ UNCHANGED <<codecVars, wire, resolveVars>>

FlagsWithPicker ==
    /\ Building
    /\ sent' = Value("flags", PickerFlags_with_picker(sent.val))
    /\ call' = NoCall
    /\ UNCHANGED <<codecVars, wire, resolveVars>>

FlagsEncode ==
    /\ Building
    /\ wire' = OnWire("u32", "encode", PickerFlags_encode(sent.val))
    /\ call' = NoCall
    /\ UNCHANGED <<codecVars, sent, resolveVars>>

\* PickerFlags::decode of the word on the wire; the reader of a received
\* word goes on with the flags it decoded.
FlagsDecode ==
    /\ wire # None /\ wire.kind = "u32"
    /\ LET r == PickerFlags_decode(wire.val)
       IN  /\ call' = Called("PickerFlags::decode", <<wire.val, wire.via>>, r)
           /\ sent' = IF sent = None /\ IsOk(r) THEN Value("flags", r.val) ELSE sent
    /\ wire' = None
    /\ UNCHANGED <<codecVars, resolveVars>>

PickOneEncode ==
    /\ sent # None /\ sent.kind = "pick" /\ wire = None /\ call = NoCall
    /\ wire' = OnWire("byte", "encode", PickOne_encode(sent.val))
    /\ UNCHANGED <<codecVars, sent, call, resolveVars>>

PickOneEncode2 ==
    /\ sent # None /\ sent.kind = "pick" /\ wire = None /\ call = NoCall
    /\ wire' = OnWire("byte", "encode2", PickOne_encode2(sent.val))
    /\ UNCHANGED <<codecVars, sent, call, resolveVars>>

PickOneDecode ==
    /\ wire # None /\ wire.kind = "byte" /\ wire.via # "encode2" /\ call = NoCall
    /\ call' = Called("PickOne::decode", <<wire.val>>, PickOne_decode(wire.val))
    /\ UNCHANGED <<codecVars, wireVars, resolveVars>>

PickOneDecode2 ==
    /\ wire # None /\ wire.kind = "byte" /\ wire.via # "encode" /\ call = NoCall
    /\ call' = Called("PickOne::decode2", <<wire.val>>, PickOne_decode2(wire.val))
    /\ UNCHANGED <<codecVars, wireVars, resolveVars>>

PickManyEncode ==
    /\ sent # None /\ sent.kind = "picks" /\ wire = None
    /\ wire' = OnWire("picker", "encode", PickMany_encode(sent.val))
    /\ UNCHANGED <<codecVars, sent, call, resolveVars>>

PickManyDecode ==
    /\ wire # None /\ wire.kind = "picker" /\ call = NoCall
    /\ call' = Called("PickMany::decode", <<wire.val>>, PickMany_decode(wire.val))
    /\ UNCHANGED <<codecVars, wireVars, resolveVars>>

NextWire ==
    \/ FlagsWithHereColl
    \/ FlagsWithRowFrom
    \/ FlagsWithPicker
    \/ FlagsEncode
    \/ FlagsDecode
    \/ PickOneEncode
    \/ PickOneEncode2
    \/ PickOneDecode
    \/ PickOneDecode2
    \/ PickManyEncode
    \/ PickManyDecode

SpecWire == InitWire /\ [][NextWire]_vars

----------------------------------------------------------------------------
(* ElementPicker as a state machine: the caller's flags word and element   *)
(* list, the object (oid, desc) and the reader's content are the inputs;   *)
(* ElementPicker::new builds the picker, resolve runs once on it.          *)

\* A Bytes32 that ends in byte k.
Cell32(k) == [i \in 1..32 |-> IF i = 32 THEN k ELSE 0]

X == Cell32(1)

Y == Cell32(2)

HereHash == Cell32(201)

DataHash == Cell32(202)

TheOid(id) == [universe |-> 31337, set |-> 9, id |-> id]

TheDesc(rev) == [traits |-> 0, rev |-> rev, krev |-> 5, srev |-> 3, kind |-> 17]

EnumMatterOf(cols, rows, d) ==
    Ok([form |-> MatterForm_Enum,
        blob |-> MkBlob(Header32(ENUM_MAGIC, 1, 0, cols, rows, TypeArr(0, 8, INFO, "none"),
                                 TypeArr(cols, 16, JSON, "none")),
                        HEADER_SIZE + rows * cols * CELL_SIZE + d, 7)])

PermMatterOf(cols, height) ==
    Ok([form |-> MatterForm_Perm,
        blob |-> MkBlob(Header32(PERM_MAGIC, 1, 0, cols, 0, TypeArr(0, 8, INFO, "none"),
                                 TypeArr(cols, 16, JSON, "none"))
                            \o HeightsBlock([i \in 1..cols |-> height], 0),
                        PermSize(0, cols, cols * height), 7)])

\* What the reader holds for the embedded collection hash: an ENUM of 2
\* columns and MaxId rows, an ENUM with a trailing byte, a PERM of one
\* column, a JSON matter, or nothing.
HereMatters ==
    {EnumMatterOf(2, MaxId, 0), EnumMatterOf(2, 1, 1), PermMatterOf(1, 2),
     [EnumMatterOf(2, MaxId, 0) EXCEPT !.val.form = JSON],
     Err("ItemNotFound", <<>>)}

\* What the reader holds for the set's / kind's data hash.
DataMatters == {EnumMatterOf(1, MaxId, 0), Err("ItemNotFound", <<>>)}

Snapshot(rev, elems) == Ok([desc |-> TheDesc(rev), elems |-> elems])

SetSnapshots ==
    {Snapshot(3, <<Cell32(10), DataHash>>), Snapshot(3, <<Cell32(10)>>),
     Err("ItemNotFound", <<>>)}

KindSnapshots == {Snapshot(5, <<Cell32(20), DataHash, Cell32(21)>>), Err("ItemNotFound", <<>>)}

PrevSnapshots == {Snapshot(1, <<Cell32(31), Cell32(32), Cell32(33)>>), Err("ItemNotFound", <<>>)}

\* The reader: the set's snapshot is stored at (set oid, srev), the kind's
\* at (kind oid, krev), the object's previous revision at (oid, rev - 1);
\* other snapshots stored beside them hold other elements.
ReaderOf(id, rev, here, data, set_snap, kind_snap, prev_snap) ==
    [matters |-> (HereHash :> here) @@ (DataHash :> data),
     snapshots |->
         (<<[universe |-> 31337, set |-> 1, id |-> 9], 3>> :> set_snap)
      @@ (<<[universe |-> 31337, set |-> 2, id |-> 17], 5>> :> kind_snap)
      @@ (<<TheOid(id), rev - 1>> :> prev_snap)
      @@ (<<TheOid(id), rev>> :> Snapshot(rev, <<Cell32(41), HereHash>>))
      @@ (<<[universe |-> 31337, set |-> 1, id |-> 9], 5>>
              :> Snapshot(5, <<Cell32(42), HereHash>>))
      @@ (<<[universe |-> 31337, set |-> 2, id |-> 17], 3>>
              :> Snapshot(3, <<Cell32(43), HereHash>>))]

\* Picker programs as the bytes a writer puts in the buffer:
\* [(HereElements,0),(HereElements,1),(HereCollection,0)],
\* [(SetData,0),(KindData,0),(SetData,0)],
\* [(ObjectData,1),(HereCollection,1),(ObjectData,0),(HereCollection,0)],
\* [(HereElements,2)], [(HereCollection,0),(HereElements,2)], the empty
\* program, and a program with a hole.
ProgramBytes ==
    {<<240, 241, 224>>, <<208, 176, 208>>, <<113, 225, 112, 224>>, <<242>>, <<224, 242>>,
     <<>>, <<240, 0, 241>>}

PickerBuffer(bytes) == [i \in 1..32 |-> IF i <= Len(bytes) THEN bytes[i] ELSE 0]

\* The flags words of the inputs: without a custom picker every low nibble
\* of a source and one of none; with one, two of the sources.
ResolveFlags == {<<n, 0>> : n \in {0, 1, 2, 4, 8, 3}} \cup {<<n, 16>> : n \in {1, 8}}

\* The caller's list: here_elems, then the collection hash when row_from is
\* HereCollection, then the picker when the custom bit is set; a bare list
\* leaves both out (and is empty when the custom bit is set).
CallerElems(here_elems, nibble, custom, bytes, bare) ==
    here_elems
        \o (IF nibble = 1 /\ ~bare THEN <<HereHash>> ELSE <<>>)
        \o (IF custom # 0 /\ ~bare THEN <<PickerBuffer(bytes)>> ELSE <<>>)

ResolveInputs(e) ==
    \E id \in 0..(MaxId + 1), rev \in 1..MaxRev, here \in HereMatters, data \in DataMatters,
       set_snap \in SetSnapshots, kind_snap \in KindSnapshots, prev_snap \in PrevSnapshots,
       fl \in ResolveFlags, bare \in BOOLEAN :
        \E bytes \in (IF fl[2] = 0 THEN {<<>>} ELSE ProgramBytes) :
            e = [impl |-> "ElementPicker",
                 oid |-> TheOid(id),
                 desc |-> TheDesc(rev),
                 reader |-> ReaderOf(id, rev, here, data, set_snap, kind_snap, prev_snap),
                 flags |-> U32(0, fl[1] + fl[2]),
                 elems |-> CallerElems(IF bare /\ fl[2] # 0 THEN <<>> ELSE <<X, Y>>,
                                       fl[1], fl[2], bytes, bare)]

\* Inputs of ElementResolver: its flags bytes (ObjectData; HereCollection
\* with the here_coll bit; SetData; the custom bit with the here_coll bit)
\* and its picker programs
\* [(HereElements,0),(HereElements,1),(HereCollection,0)],
\* [(ObjectData,1),(HereCollection,1),(ObjectData,0),(HereCollection,0)],
\* [(SetData,0),(KindData,0),(SetData,0)].
ResolverInputs(e) ==
    \E id \in 0..(MaxId + 1), rev \in 1..MaxRev, here \in HereMatters, data \in DataMatters,
       set_snap \in SetSnapshots, prev_snap \in PrevSnapshots, lo8 \in {3, 132, 1, 144} :
        \E bytes \in (IF lo8 # 144 THEN {<<>>}
                      ELSE {<<80, 81, 64>>, <<49, 65, 48, 64>>, <<17, 33, 17>>}) :
            e = [impl |-> "ElementResolver",
                 oid |-> TheOid(id),
                 desc |-> TheDesc(rev),
                 reader |-> ReaderOf(id, rev, here, data, set_snap,
                                     Snapshot(5, <<Cell32(20), DataHash, Cell32(21)>>),
                                     prev_snap),
                 flags |-> U32(0, lo8),
                 elems |-> <<X, Y>>
                               \o (IF lo8 >= 128 THEN <<HereHash>> ELSE <<>>)
                               \o (IF lo8 = 144 THEN <<PickerBuffer(bytes)>> ELSE <<>>)]

InitResolve ==
    /\ NoCodec
    /\ NoWire
    /\ call = NoCall
    /\ (ResolveInputs(env) \/ ResolverInputs(env))
    /\ picker = None
    /\ log = <<>>

CallNew ==
    /\ picker = None /\ env.impl = "ElementPicker"
    /\ picker' = ElementPicker_new(env.flags, env.elems)
    /\ UNCHANGED <<codecVars, wireVars, call, env, log>>

CallResolve ==
    /\ IsOk(picker) /\ call = NoCall /\ env.impl = "ElementPicker"
    /\ LET r == ElementPicker_resolve(picker.val, env.reader, env.oid, env.desc)
       IN  /\ call' = Called("resolve", <<env.oid, env.desc>>, r.ret)
           /\ log' = r.log
    /\ UNCHANGED <<codecVars, wireVars, env, picker>>

CallResolverNew ==
    /\ picker = None /\ env.impl = "ElementResolver"
    /\ picker' = ElementResolver_new(env.flags, env.elems)
    /\ UNCHANGED <<codecVars, wireVars, call, env, log>>

CallResolverResolve ==
    /\ IsOk(picker) /\ call = NoCall /\ env.impl = "ElementResolver"
    /\ LET r == ElementResolver_resolve(picker.val, env.reader, env.oid, env.desc)
       IN  /\ call' = Called("resolve", <<env.oid, env.desc>>, r.ret)
           /\ log' = r.log
    /\ UNCHANGED <<codecVars, wireVars, env, picker>>

NextResolve ==
    \/ CallNew
    \/ CallResolve
    \/ CallResolverNew
    \/ CallResolverResolve

SpecResolve == InitResolve /\ [][NextResolve]_vars

----------------------------------------------------------------------------
(* ElementPicker::new as a state machine: a flags word and a caller's list *)
(* of up to MaxElems elements are the inputs.                              *)

\* Low halves of the flags words: every source nibble with and without the
\* custom bit and bits 5..15, and nibbles of no source.
NewFlagsLo == {n + c + u : n \in {0, 1, 2, 4, 8}, c \in {0, 16}, u \in {0, 32800}} \cup {3, 31}

\* Elements of the caller's list: plain cells, a collection hash, a picker
\* program [(HereElements,0),(HereCollection,1)], and buffers that are not
\* picker programs (a bad source nibble, an instruction after padding).
NewElems ==
    {X, HereHash, PickerBuffer(<<240, 225>>), PickerBuffer(<<15>>), PickerBuffer(<<240, 0, 225>>)}

RECURSIVE ListsUpTo(_)
ListsUpTo(n) ==
    IF n = 0 THEN {<<>>}
    ELSE ListsUpTo(n - 1)
             \cup {Append(l, e) : l \in {m \in ListsUpTo(n - 1) : Len(m) = n - 1}, e \in NewElems}

NewInputs(e) ==
    \E lo \in NewFlagsLo, hi \in {0, 40960}, elems \in ListsUpTo(MaxElems) :
        e = [impl |-> "ElementPicker", flags |-> U32(hi, lo), elems |-> elems]

InitNew ==
    /\ NoCodec
    /\ NoWire
    /\ call = NoCall
    /\ NewInputs(env)
    /\ picker = None
    /\ log = <<>>

NextNew == CallNew

SpecNew == InitNew /\ [][NextNew]_vars

----------------------------------------------------------------------------
(* ElementPicker::patch as a state machine: prev, resolved, mut_bits and   *)
(* the build (with or without overflow checks) are the inputs.             *)

\* mut_bits with any of the slots 0..3 and 15 set.
PatchBits ==
    {SumSeq([k \in 1..5 |-> IF k \in S THEN 2 ^ (IF k = 5 THEN 0 ELSE 16 - k) ELSE 0]) :
        S \in SUBSET (1..5)}

PatchInputs(e) ==
    \E n \in 0..MaxPrev, k \in 0..MaxPrev, mut_bits \in PatchBits,
       overflow_checks \in BOOLEAN :
        e = [prev |-> [i \in 1..n |-> Cell32(i)],
             resolved |-> [j \in 1..k |-> Cell32(100 + j)],
             mut_bits |-> mut_bits,
             overflow_checks |-> overflow_checks]

InitPatch ==
    /\ NoCodec
    /\ NoWire
    /\ call = NoCall
    /\ PatchInputs(env)
    /\ picker = None
    /\ log = <<>>

CallPatch ==
    /\ call = NoCall
    /\ call' = Called("patch", <<env.prev, env.resolved, env.mut_bits>>,
                      ElementPicker_patch(env.prev, env.resolved, env.mut_bits,
                                          env.overflow_checks))
    /\ UNCHANGED <<codecVars, wireVars, resolveVars>>

NextPatch == CallPatch

SpecPatch == InitPatch /\ [][NextPatch]_vars

----------------------------------------------------------------------------
(* StateProvider and the StateReader built on it (src/src/reader.rs).  The *)
(* storage is a function from keys to raw values.  A key is [variant, oid, *)
(* rev], the Identity-hashed ObjectKey; a raw value is [idx, complete,     *)
(* body]: the SCALE variant index, whether the bytes after it are a whole  *)
(* encoding, and the fields they encode.  The operators return [ret, log], *)
(* log being the keys read up to the return.                               *)

ObjectKey(variant, oid, rev) == [variant |-> variant, oid |-> oid, rev |-> rev]

\* The variants of ObjectValue in the order of their SCALE indexes 0..3.
ObjectVariants == <<"Sota", "Snapshot", "Tails", "Facets">>

ObjectValue_encode(variant, body) ==
    [idx |-> (CHOOSE i \in 1..4 : ObjectVariants[i] = variant) - 1,
     complete |-> TRUE, body |-> body]

ObjectValue_decode(raw) ==
    IF raw.idx \notin 0..3 \/ ~raw.complete THEN Err("DecodeFailed", <<>>)
    ELSE Ok([variant |-> ObjectVariants[raw.idx + 1], val |-> raw.body])

Provider_get(store, key) == IF key \in DOMAIN store THEN Some(store[key]) ELSE None

Provider_get_sota(store, oid, tr) ==
    LET key == ObjectKey("Sota", oid, 0)
        log1 == Append(tr, key)
        raw == Provider_get(store, key)
    IN  IF raw.tag = "None" THEN [ret |-> Err("ItemNotFound", <<>>), log |-> log1]
        ELSE LET val == ObjectValue_decode(raw.val)
             IN  IF ~IsOk(val) THEN [ret |-> Err("DecodeFailed", <<>>), log |-> log1]
                 ELSE IF val.val.variant = "Sota" THEN [ret |-> Ok(val.val.val), log |-> log1]
                 ELSE [ret |-> Err("UnexpectdVariant", <<>>), log |-> log1]

Provider_get_snapshot(store, oid, rev, tr) ==
    LET key == ObjectKey("Snapshot", oid, rev)
        log1 == Append(tr, key)
        raw == Provider_get(store, key)
    IN  IF raw.tag = "None" THEN [ret |-> Err("ItemNotFound", <<>>), log |-> log1]
        ELSE LET val == ObjectValue_decode(raw.val)
             IN  IF ~IsOk(val) THEN [ret |-> Err("DecodeFailed", <<>>), log |-> log1]
                 ELSE IF val.val.variant = "Snapshot"
                 THEN [ret |-> Ok(val.val.val), log |-> log1]
                 ELSE [ret |-> Err("UnexpectdVariant", <<>>), log |-> log1]

Provider_resolve_rev_AsGiven(store, oid, rev0, tr) == [ret |-> Ok(rev0), log |-> tr]

Provider_resolve_rev(store, oid, rev0, tr) ==
    IF rev0 = 0
    THEN With(Provider_get_sota(store, oid, tr), LAMBDA sota :
             IF ~IsOk(sota.ret) THEN sota
             ELSE [ret |-> Ok(sota.ret.val.desc.rev), log |-> sota.log])
    ELSE [ret |-> Ok(rev0), log |-> tr]

\* StateError::from(ProviderError), applied by `?`.
StateError_from(r) == IF r.tag = "Err" THEN Err("ProviderError", r.val.kind) ELSE r

StateReader_get_snapshot(store, oid, rev0) ==
    With(Provider_resolve_rev(store, oid, rev0, <<>>), LAMBDA rev :
        IF ~IsOk(rev.ret) THEN [ret |-> StateError_from(rev.ret), log |-> rev.log]
        ELSE With(Provider_get_snapshot(store, oid, rev.ret.val, rev.log), LAMBDA snap :
                 IF ~IsOk(snap.ret) THEN [ret |-> StateError_from(snap.ret), log |-> snap.log]
                 ELSE [ret |-> Ok(<<snap.ret.val.desc, snap.ret.val.elems>>),
                       log |-> snap.log]))

----------------------------------------------------------------------------
(* The reader as a state machine: the storage holds a Sota record and      *)
(* snapshots of one object (well formed, cut short, or of another          *)
(* variant), and get_snapshot is called once.                              *)

\* A Sota whose descriptor names revision rev; the other fields are not read.
SotaOf(rev) ==
    [desc |-> TheDesc(rev), trev |-> 0, owner |-> Cell32(0), pos |-> 0, mtime |-> 0]

\* The snapshot of revision rev, with elements that tell the revisions apart.
SnapshotOf(rev) ==
    [desc |-> TheDesc(rev), trev |-> 0, mtime |-> 0,
     elems |-> <<Cell32(40 + rev), Cell32(rev)>>]

\* What the storage may hold under a key: nothing, the encoding of the
\* value, that encoding cut short, or a value of another variant.
StoredAs == {"absent", "whole", "short", "other"}

Stored(how, variant, body) ==
    CASE how = "absent" -> None
      [] how = "whole" -> Some(ObjectValue_encode(variant, body))
      [] how = "short" -> Some([ObjectValue_encode(variant, body) EXCEPT !.complete = FALSE])
      [] how = "other" -> Some(ObjectValue_encode("Tails", body))

StoreOf(oid, sota, snaps) ==
    LET revs == {r \in DOMAIN snaps : snaps[r].tag = "Some"}
        keys == (IF sota.tag = "Some" THEN {ObjectKey("Sota", oid, 0)} ELSE {})
                    \cup {ObjectKey("Snapshot", oid, r) : r \in revs}
    IN  [k \in keys |-> IF k.variant = "Sota" THEN sota.val ELSE snaps[k.rev].val]

ReaderInputs(e) ==
    \E sota_rev \in 0..MaxRev, rev \in 0..MaxRev, sota_how \in StoredAs :
        \E snaps_how \in [0..MaxRev -> StoredAs] :
            e = [store |-> StoreOf(TheOid(1), Stored(sota_how, "Sota", SotaOf(sota_rev)),
                                   [r \in 0..MaxRev |->
                                       Stored(snaps_how[r], "Snapshot", SnapshotOf(r))]),
                 oid |-> TheOid(1), rev |-> rev]

InitReader ==
    /\ NoCodec
    /\ NoWire
    /\ call = NoCall
    /\ ReaderInputs(env)
    /\ picker = None
    /\ log = <<>>

CallGetSnapshot ==
    /\ call = NoCall
    /\ LET r == StateReader_get_snapshot(env.store, env.oid, env.rev)
       IN  /\ call' = Called("get_snapshot", <<env.oid, env.rev>>, r.ret)
           /\ log' = r.log
    /\ UNCHANGED <<codecVars, wireVars, env, picker>>

NextReader == CallGetSnapshot

SpecReader == InitReader /\ [][NextReader]_vars

----------------------------------------------------------------------------
(* What the input blob says, read from its bytes.                          *)

RawAux == Lo4(BlobAt(blob, 4))

RawCols == BlobAt(blob, 5)

RawWord == U16LE(BlobAt(blob, 6), BlobAt(blob, 7))

PrefixValid(magic) ==
    /\ blob.len >= 32
    /\ BlobBytes(blob, 0, 4) = magic
    /\ Hi4(BlobAt(blob, 4)) = 1
    /\ RawAux <= 8
    /\ RawCols <= 16

AuxTypesBad ==
    \/ \E i \in 0..(RawAux - 1) : BlobAt(blob, 8 + i) = 0
    \/ \E i \in RawAux..7 : BlobAt(blob, 8 + i) # 0

ColTypesBad ==
    \/ \E i \in 0..(RawCols - 1) : BlobAt(blob, 16 + i) = 0
    \/ \E i \in RawCols..15 : BlobAt(blob, 16 + i) # 0

EnumParsed == pc = "enum" /\ IsOk(parsed)

\* Offset in the blob of ENUM cell (r, c).
EnumCellOffset(r, c) == 32 + RawAux * 32 + (r * RawCols + c) * 32

----------------------------------------------------------------------------
(* Claims about the ENUM codec and the shared header checks.               *)

\* C1: for every blob EnumMatter::from accepts, the parsed body holds
\* exactly aux*32 bytes of aux data and cols*rows*32 bytes of row data, and
\* for r < rows and c < cols cell_at(r, c) succeeds with the 32 bytes of the
\* blob at offset 32 + aux*32 + (r*cols + c)*32.
C1_EnumCellAtBlobOffset ==
    EnumParsed =>
        /\ VecLen(parsed.val.aux_data) = RawAux * 32
        /\ VecLen(parsed.val.row_data) = RawCols * RawWord * 32
        /\ (call.op = "cell_at" /\ call.args[1] < RawWord /\ call.args[2] < RawCols) =>
               /\ IsOk(call.ret)
               /\ call.ret.val =
                      BlobBytes(blob, EnumCellOffset(call.args[1], call.args[2]),
                                EnumCellOffset(call.args[1], call.args[2]) + 32)

C1_Witness ==
    /\ EnumParsed /\ RawAux > 0
    /\ call.op = "cell_at" /\ call.args[1] > 0 /\ call.args[2] > 0
    /\ IsOk(call.ret)

\* C2: when the 32-byte ENUM header passes every header check,
\* EnumMatter::from succeeds if and only if blob.len = 32 + (aux + rows*cols)*32,
\* and a longer or shorter blob is rejected with BadBody.
C2_EnumExactLength ==
    (pc = "enum" /\ IsOk(EnumMatterHeader_from(blob))) =>
        LET expect == 32 + (RawAux + RawWord * RawCols) * 32
        IN  /\ IsOk(parsed) <=> blob.len = expect
            /\ blob.len # expect => IsErr(parsed, "BadBody")

C2_Witness ==
    /\ pc = "enum" /\ IsOk(EnumMatterHeader_from(blob))
    /\ blob.len > 32 + (RawAux + RawWord * RawCols) * 32
    /\ IsErr(parsed, "BadBody")

\* C3: for every parsed ENUM, row_at(row) with row < rows returns exactly
\* cols cells, the c-th equal to cell_at(row, c), the cell at position
\* row*cols + c of the row-major grid; with row >= rows it returns OobCell.
C3_EnumRowAt ==
    (EnumParsed /\ call.op = "row_at") =>
        LET row == call.args[1]
        IN  IF row < RawWord
            THEN /\ IsOk(call.ret)
                 /\ Len(call.ret.val) = RawCols
                 /\ \A c \in 0..(RawCols - 1) :
                        /\ Ok(call.ret.val[c + 1]) = EnumMatter_cell_at(parsed.val, row, c)
                        /\ call.ret.val[c + 1] =
                               BlobBytes(blob, EnumCellOffset(row, c),
                                         EnumCellOffset(row, c) + 32)
            ELSE IsErr(call.ret, "OobCell")

C3_Witness ==
    /\ EnumParsed /\ call.op = "row_at"
    /\ call.args[1] > 0 /\ RawCols > 1
    /\ IsOk(call.ret) /\ Len(call.ret.val) = RawCols

\* C4: for an ENUM or PERM blob with valid magic, version, aux count and
\* column count, a zero among the first aux entries of aux_types or a
\* non-zero in entries aux..8 fails with BadAuxTypes; otherwise a zero among
\* the first cols entries of col_types or a non-zero in entries cols..16
\* fails with BadColTypes; no blob with such a type array is accepted.
C4_TypeArraysLeftPacked ==
    /\ ((pc = "enum" /\ PrefixValid(ENUM_MAGIC)) \/ (pc = "perm" /\ PrefixValid(PERM_MAGIC))) =>
           /\ AuxTypesBad => IsErr(parsed, "BadAuxTypes")
           /\ (~AuxTypesBad /\ ColTypesBad) => IsErr(parsed, "BadColTypes")
    /\ (pc \in {"enum", "perm"} /\ IsOk(parsed)) => (~AuxTypesBad /\ ~ColTypesBad)

C4_Witness ==
    /\ pc = "perm" /\ PrefixValid(PERM_MAGIC)
    /\ ~AuxTypesBad /\ ColTypesBad
    /\ \E i \in RawCols..15 : BlobAt(blob, 16 + i) # 0
    /\ IsErr(parsed, "BadColTypes")

\* C10: no ENUM or PERM blob longer than the 10 MiB matter bound
\* (MATTER_BLOB_MAX) is accepted by EnumMatter::from or PermMatter::from.
C10_OversizedBlobRejected ==
    (pc \in {"enum", "perm"} /\ IsOk(parsed)) => blob.len <= MATTER_BLOB_MAX

----------------------------------------------------------------------------
(* What a PERM blob says, read from its bytes.                             *)

PermParsed == pc = "perm" /\ IsOk(parsed)

RawHeight(i) == U16LE(BlobAt(blob, 32 + 2 * i), BlobAt(blob, 33 + 2 * i))

\* Column i is a permutation column: bit 15-i of enum_cols is zero.
RawIsPerm(i) == (RawWord \div (2 ^ (15 - i))) % 2 = 0

RawHeaderEnd == IF RawCols = 0 THEN 32 ELSE 64

\* Product of col_height over the permutation columns i..cols-1.
RECURSIVE PermProductFrom(_)
PermProductFrom(i) ==
    IF i >= RawCols THEN 1
    ELSE (IF RawIsPerm(i) THEN RawHeight(i) ELSE 1) * PermProductFrom(i + 1)

\* Sum of col_height over the columns 0..i-1: the col_offset of column i.
RECURSIVE HeightSumBefore(_)
HeightSumBefore(i) == IF i <= 0 THEN 0 ELSE RawHeight(i - 1) + HeightSumBefore(i - 1)

\* The mixed-radix digit of `row` for column c, walking from the last column.
MixedRadixIndex(row, c) ==
    IF RawIsPerm(c) THEN (row \div PermProductFrom(c + 1)) % RawHeight(c) ELSE row

\* Offset in the blob of the cell of column c in logical row `row`.
PermCellOffset(row, c) ==
    RawHeaderEnd + RawAux * 32 + (HeightSumBefore(c) + MixedRadixIndex(row, c)) * 32

----------------------------------------------------------------------------
(* Claims about the PERM codec.                                            *)

\* C5: for every PERM blob that parses, rows() is the product of col_height
\* over the permutation columns (1 when there is none) and sum_heights is
\* the sum of col_height over all columns.
C5_PermRowsAndSumHeights ==
    PermParsed =>
        /\ parsed.val.header.rows = PermProductFrom(0)
        /\ parsed.val.header.sum_heights = HeightSumBefore(RawCols)

\* C6: for every parsed PERM, row_to_indexes(row) with row < rows returns
\* cols indexes in column order, the mixed-radix digits of row over the
\* permutation columns walked from the last to the first and row itself for
\* an enum column; with row >= rows it returns an error.
C6_PermRowToIndexes ==
    (PermParsed /\ call.op = "row_to_indexes") =>
        LET row == call.args[1]
        IN  IF row < PermProductFrom(0)
            THEN /\ IsOk(call.ret)
                 /\ call.ret.val = [c \in 1..RawCols |-> MixedRadixIndex(row, c - 1)]
            ELSE call.ret.tag = "Err"

\* C7: for every parsed PERM, row < rows and col < cols, row_at(row) returns
\* cols cells and both row_at(row)[col] and cell_at(row, col) are the cell of
\* the column-major region at position col_offset[col] + index[col].
C7_PermCells ==
    /\ (PermParsed /\ call.op = "row_at" /\ call.args[1] < PermProductFrom(0)) =>
           /\ IsOk(call.ret)
           /\ Len(call.ret.val) = RawCols
           /\ \A c \in 0..(RawCols - 1) :
                  call.ret.val[c + 1] =
                      BlobBytes(blob, PermCellOffset(call.args[1], c),
                                PermCellOffset(call.args[1], c) + 32)
    /\ (PermParsed /\ call.op = "cell_at" /\ call.args[1] < PermProductFrom(0)
            /\ call.args[2] < RawCols) =>
           /\ IsOk(call.ret)
           /\ call.ret.val =
                  BlobBytes(blob, PermCellOffset(call.args[1], call.args[2]),
                            PermCellOffset(call.args[1], call.args[2]) + 32)

\* C8: in every parsed PERM the aux region starts at header_end and the
\* column-major cell region at header_end + aux*32, after the aux cells.
C8_PermRegions ==
    PermParsed =>
        /\ parsed.val.aux_data.from = RawHeaderEnd
        /\ parsed.val.col_data.from = RawHeaderEnd + RawAux * 32
        /\ RawAux > 0 => parsed.val.col_data.from >= parsed.val.aux_data.to

\* C9: PermMatter::from accepts a blob with a valid header only if blob.len
\* is exactly header_end + (sum_heights + aux)*32.
C9_PermExactLength ==
    (PermParsed /\ IsOk(PermHeader_from(blob))) =>
        blob.len = RawHeaderEnd + (HeightSumBefore(RawCols) + RawAux) * 32

----------------------------------------------------------------------------
(* Claims about collections, picker flags and picker instructions.         *)

\* C11: CollectionMatter::from_matter parses the blob as ENUM exactly when
\* matter.form is 0xD0 and as PERM exactly when it is 0xD1; for every other
\* form byte it returns NotCollection whatever the blob holds, and a codec
\* parse failure is returned as EnumMatterFrom / PermMatterFrom, never as a
\* collection.
C11_FromMatterDispatch ==
    pc = "coll" =>
        /\ env.form = 208 =>
               /\ IsOk(EnumMatter_from(blob)) =>
                      parsed = Ok([variant |-> "Enum", m |-> EnumMatter_from(blob).val])
               /\ EnumMatter_from(blob).tag = "Err" => IsErr(parsed, "EnumMatterFrom")
        /\ env.form = 209 =>
               /\ IsOk(PermMatter_from(blob)) =>
                      parsed = Ok([variant |-> "Perm", m |-> PermMatter_from(blob).val])
               /\ PermMatter_from(blob).tag = "Err" => IsErr(parsed, "PermMatterFrom")
        /\ env.form \notin {208, 209} => IsErr(parsed, "NotCollection")
        /\ IsOk(parsed) =>
               /\ parsed.val.variant = "Enum" <=> env.form = 208
               /\ parsed.val.variant = "Perm" <=> env.form = 209
               /\ env.form = 208 => BlobBytes(blob, 0, 4) = ENUM_MAGIC
               /\ env.form = 209 => BlobBytes(blob, 0, 4) = PERM_MAGIC

C11_Witness ==
    /\ pc = "coll" /\ env.form = 209
    /\ BlobBytes(blob, 0, 4) = ENUM_MAGIC /\ IsOk(EnumMatter_from(blob))
    /\ IsErr(parsed, "PermMatterFrom")

\* C12: for every PickerFlags value f (built with new, with_here_coll,
\* with_row_from, with_picker or decode), PickerFlags::decode(f.encode())
\* succeeds and yields a value equal to f in all four fields.
C12_FlagsRoundTrip ==
    (call.op = "PickerFlags::decode" /\ call.args[2] = "encode") =>
        /\ IsOk(call.ret)
        /\ call.ret.val.mut_bits = sent.val.mut_bits
        /\ call.ret.val.custom = sent.val.custom
        /\ call.ret.val.here_coll = sent.val.here_coll
        /\ call.ret.val.row_from = sent.val.row_from

C12_Witness ==
    /\ call.op = "PickerFlags::decode" /\ call.args[2] = "encode"
    /\ sent.val.mut_bits = 40960 /\ sent.val.custom
    /\ sent.val.here_coll /\ sent.val.row_from = "HereCollection"
    /\ IsOk(call.ret)

\* The source nibble of a PickFrom as the wire format documents it.
SrcNibble(src) ==
    CASE src = "HereElements" -> 0
      [] src = "HereCollection" -> 1
      [] src = "SetData" -> 2
      [] src = "KindData" -> 4
      [] src = "ObjectData" -> 8

\* C13: for every PickOne{src, idx} with src one of the five sources and
\* idx in 0..16, the wire byte is (~src_nibble << 4) | idx, its high nibble
\* the complement of the source nibble, and decoding that byte with
\* decode2, the decoder PickMany::decode uses, yields the same src and idx.
C13_PickOneWireByte ==
    (sent # None /\ sent.kind = "pick" /\ sent.val.idx < 16
         /\ wire # None /\ wire.via = "encode2") =>
        /\ wire.val = (15 - SrcNibble(sent.val.src)) * 16 + sent.val.idx
        /\ call.op = "PickOne::decode2" => call.ret = Ok(sent.val)
        /\ PickMany_decode([i \in 1..32 |-> IF i = 1 THEN wire.val ELSE 0])
               = Ok([picks |-> <<sent.val>>])

C13_Witness ==
    /\ sent # None /\ sent.kind = "pick" /\ sent.val.src = "KindData" /\ sent.val.idx = 9
    /\ wire # None /\ wire.via = "encode2" /\ wire.val = 185
    /\ call.op = "PickOne::decode2" /\ IsOk(call.ret)

\* A non-zero byte follows a zero byte within the first 16 bytes.
PaddingBroken(bytes) ==
    \E i \in 1..16, j \in 1..16 : i < j /\ bytes[i] = 0 /\ bytes[j] # 0

\* Some non-zero byte before the first zero byte names no source.
BadSourceBeforePadding(bytes) ==
    \E i \in 1..16 :
        /\ \A k \in 1..i : bytes[k] # 0
        /\ (15 - (bytes[i] \div 16)) \notin {0, 1, 2, 4, 8}

\* C14 (as stated): PickMany::decode fails with InvalidPickerPadding for
\* every picker buffer that has, within positions 0..16, a non-zero byte at
\* a higher position than some zero byte.
C14_PaddingAlwaysReported ==
    (call.op = "PickMany::decode" /\ PaddingBroken(call.args[1])) =>
        IsErr(call.ret, "InvalidPickerPadding")

\* C14 (amended): PickMany::decode fails for every picker buffer that has,
\* within positions 0..16, a non-zero byte after a zero byte: with
\* InvalidElementSource when a non-zero byte before the first zero names no
\* source, with InvalidPickerPadding otherwise; a buffer it accepts has
\* zero bytes only as a suffix of its first 16 bytes.
C14_PaddingRejected ==
    call.op = "PickMany::decode" =>
        /\ PaddingBroken(call.args[1]) =>
               IF BadSourceBeforePadding(call.args[1])
               THEN IsErr(call.ret, "InvalidElementSource")
               ELSE IsErr(call.ret, "InvalidPickerPadding")
        /\ IsOk(call.ret) =>
               \A i \in 1..15 : call.args[1][i] = 0 => call.args[1][i + 1] = 0

C14_Witness ==
    /\ call.op = "PickMany::decode"
    /\ call.args[1][1] = 240 /\ call.args[1][2] = 0 /\ call.args[1][3] = 225
    /\ IsErr(call.ret, "InvalidPickerPadding")

----------------------------------------------------------------------------
(* What the inputs of a resolve say, read from the reader's content.       *)

ResolveDone == call.op = "resolve" /\ env.impl = "ElementPicker"

ResolverDone == call.op = "resolve" /\ env.impl = "ElementResolver"

RowFromSourceOf(src) == Traced("row_from_source", <<src>>)

\* The row a source read uses: max(0, oid.id - 1).
RowIndex == IF env.oid.id = 0 THEN 0 ELSE env.oid.id - 1

\* The reader's answer is an ENUM matter that parses.
ValidEnum(m) == IsOk(m) /\ m.val.form = 208 /\ IsOk(EnumMatter_from(m.val.blob))

RowsOf(b) == U16LE(BlobAt(b, 6), BlobAt(b, 7))

\* Row r of the ENUM blob b, cell by cell from its bytes.
EnumRowOf(b, r) ==
    LET aux == Lo4(BlobAt(b, 4))
        cols == BlobAt(b, 5)
    IN  [c \in 1..cols |->
            BlobBytes(b, 32 + aux * 32 + (r * cols + c - 1) * 32,
                      32 + aux * 32 + (r * cols + c - 1) * 32 + 32)]

\* What resolve returns for a row read of the matter m the reader holds.
RowReadIs(m, ret) ==
    IF RowIndex < RowsOf(m.val.blob)
    THEN ret = Ok(EnumRowOf(m.val.blob, RowIndex))
    ELSE IsErr(ret, "EnumMatterRowAt")

PickRowOf(src) == Traced("pick_row", <<src>>)

CountIn(tr, Keep(_)) == Cardinality({i \in 1..Len(tr) : Keep(tr[i])})

SetKey == <<[universe |-> env.oid.universe, set |-> 1, id |-> env.oid.set], env.desc.srev>>

KindKey == <<[universe |-> env.oid.universe, set |-> 2, id |-> env.desc.kind], env.desc.krev>>

\* The trace after a pick_row of a data source at position i: the snapshot
\* call at `key`, then get_matter with element 1 of the snapshot.
DataSourceOrder(i, key) ==
    /\ Len(log) >= i + 1
    /\ log[i + 1] = Traced("get_snapshot", key)
    /\ LET snap == env.reader.snapshots[key]
       IN  /\ (IsOk(snap) /\ Len(snap.val.elems) >= 2) =>
                  /\ Len(log) >= i + 2
                  /\ log[i + 2] = Traced("get_matter", <<snap.val.elems[2]>>)
           /\ ~IsOk(snap) =>
                  /\ Len(log) = i + 1
                  /\ IsErr(call.ret, "StateReaderGetSnapshot")

----------------------------------------------------------------------------
(* Claims about ElementPicker::resolve and ElementPicker::patch.           *)

\* C15: with row_from = HereCollection, no custom picker and the embedded
\* collection hash as the last element, resolve returns exactly row
\* max(0, oid.id - 1) of the ENUM collection the reader returns for that
\* hash (oid.id = 1 the first row, oid.id = 2 the second, oid.id = 0 the
\* first), after one get_matter call with that hash.
C15_HereCollectionRow ==
    (ResolveDone /\ picker.val.custom = None
         /\ picker.val.flags.row_from = "HereCollection"
         /\ Last(env.elems) = HereHash /\ ValidEnum(env.reader.matters[HereHash])) =>
        /\ RowReadIs(env.reader.matters[HereHash], call.ret)
        /\ log = <<PickRowOf("HereCollection"), Traced("get_matter", <<HereHash>>)>>

C15_Witness ==
    /\ ResolveDone /\ picker.val.custom = None
    /\ picker.val.flags.row_from = "HereCollection"
    /\ Last(env.elems) = HereHash /\ ValidEnum(env.reader.matters[HereHash])
    /\ env.oid.id = 2
    /\ IsOk(call.ret) /\ Len(call.ret.val) = 2
    /\ call.ret.val[1] = BlobBytes(env.reader.matters[HereHash].val.blob, 96, 128)

\* ElementPicker::resolve fetches the row of each PickFrom at most once.
PickerFetchesOnce ==
    (ResolveDone /\ picker.val.custom # None) =>
        /\ \A src \in PickFrom : CountIn(log, LAMBDA e : e = PickRowOf(src)) <= 1
        /\ Cardinality({i \in 2..Len(log) :
               log[i].fn = "get_matter" /\ log[i - 1] = PickRowOf("HereCollection")}) <= 1
        /\ CountIn(log, LAMBDA e : e.fn = "get_matter") <= 3
        /\ CountIn(log, LAMBDA e : e.fn = "get_snapshot") <= 3
        /\ (/\ picker.val.custom.val.picks =
                   <<[src |-> "HereElements", idx |-> 0], [src |-> "HereElements", idx |-> 1],
                     [src |-> "HereCollection", idx |-> 0]>>
            /\ picker.val.here_elems = <<X, Y>>
            /\ picker.val.here_coll = Some(HereHash)
            /\ ValidEnum(env.reader.matters[HereHash])
            /\ RowIndex < RowsOf(env.reader.matters[HereHash].val.blob)) =>
               /\ call.ret = Ok(<<X, Y, EnumRowOf(env.reader.matters[HereHash].val.blob,
                                                  RowIndex)[1]>>)
               /\ CountIn(log, LAMBDA e : e.fn = "get_matter") = 1

\* ElementResolver::resolve fetches the row of each ElementSource at most
\* once.
ResolverFetchesOnce ==
    (ResolverDone /\ picker.val.custom_picker # None) =>
        /\ \A src \in ElementSource : CountIn(log, LAMBDA e : e = RowFromSourceOf(src)) <= 1
        /\ Cardinality({i \in 2..Len(log) :
               log[i].fn = "get_matter" /\ log[i - 1] = RowFromSourceOf("HereCollection")}) <= 1
        /\ CountIn(log, LAMBDA e : e.fn = "get_matter") <= 3
        /\ CountIn(log, LAMBDA e : e.fn = "get_snapshot") <= 3
        /\ (/\ picker.val.custom_picker.val =
                   <<[src |-> "HereElements", idx |-> 0], [src |-> "HereElements", idx |-> 1],
                     [src |-> "HereCollection", idx |-> 0]>>
            /\ ValidEnum(env.reader.matters[HereHash])
            /\ RowIndex < RowsOf(env.reader.matters[HereHash].val.blob)) =>
               /\ call.ret = Ok(<<X, Y, EnumRowOf(env.reader.matters[HereHash].val.blob,
                                                  RowIndex)[1]>>)
               /\ CountIn(log, LAMBDA e : e.fn = "get_matter") = 1

\* C16: within one resolve call with a custom picker the row of each
\* source is fetched at most once however many instructions name it, so
\* get_matter is called at most once for the embedded collection; the
\* picker [(HereElements,0),(HereElements,1),(HereCollection,0)] with
\* here_elems [X,Y] and collection row [Z,W] returns [X,Y,Z] with one
\* get_matter call.
C16_EachSourceFetchedOnce == PickerFetchesOnce /\ ResolverFetchesOnce

C16_Witness ==
    /\ ResolveDone /\ picker.val.custom # None
    /\ Len(picker.val.custom.val.picks) = 4
    /\ IsOk(call.ret) /\ Len(call.ret.val) = 4
    /\ CountIn(log, LAMBDA e : e.fn = "get_matter") = 1
    /\ CountIn(log, LAMBDA e : e.fn = "get_snapshot") = 1

\* C17: for source SetData (resp. KindData) resolve first calls
\* get_snapshot((universe, 1, oid.set), desc.srev) (resp.
\* get_snapshot((universe, 2, desc.kind), desc.krev)), then get_matter with
\* exactly element 1 of that snapshot, and returns row max(0, oid.id - 1)
\* of that collection; get_matter is never called before the snapshot call
\* has succeeded.
C17_DataSourceOrder ==
    ResolveDone =>
        /\ \A i \in 1..Len(log) :
               /\ log[i] = PickRowOf("SetData") => DataSourceOrder(i, SetKey)
               /\ log[i] = PickRowOf("KindData") => DataSourceOrder(i, KindKey)
               /\ log[i].fn = "get_matter" =>
                      /\ i > 1
                      /\ \/ log[i - 1] = PickRowOf("HereCollection")
                         \/ /\ log[i - 1].fn = "get_snapshot"
                            /\ i > 2 /\ log[i - 2] \in {PickRowOf("SetData"), PickRowOf("KindData")}
                            /\ IsOk(env.reader.snapshots[log[i - 1].args])
        /\ \A src \in {"SetData", "KindData"} :
               LET snap == env.reader.snapshots[IF src = "SetData" THEN SetKey ELSE KindKey]
               IN  (/\ picker.val.custom = None /\ picker.val.flags.row_from = src
                    /\ IsOk(snap) /\ Len(snap.val.elems) >= 2
                    /\ snap.val.elems[2] \in DOMAIN env.reader.matters
                    /\ ValidEnum(env.reader.matters[snap.val.elems[2]])) =>
                       /\ RowReadIs(env.reader.matters[snap.val.elems[2]], call.ret)
                       /\ Len(log) = 3

C17_Witness ==
    /\ ResolveDone /\ picker.val.custom = None /\ picker.val.flags.row_from = "KindData"
    /\ env.oid.id = 2
    /\ log = <<PickRowOf("KindData"), Traced("get_snapshot", KindKey),
               Traced("get_matter", <<DataHash>>)>>
    /\ call.ret = Ok(<<BlobBytes(env.reader.matters[DataHash].val.blob, 64, 96)>>)

\* What an ObjectData read returns and which reader calls it makes,
\* after the trace entry `first` of the read itself.
ObjectDataRead(first) ==
    IF env.desc.rev <= 1
    THEN /\ IsErr(call.ret, "NoPreviousRevision")
         /\ log = <<first>>
    ELSE /\ log = <<first, Traced("get_snapshot", <<env.oid, env.desc.rev - 1>>)>>
         /\ LET snap == env.reader.snapshots[<<env.oid, env.desc.rev - 1>>]
            IN  /\ IsOk(snap) => call.ret = Ok(snap.val.elems)
                /\ ~IsOk(snap) => IsErr(call.ret, "StateReaderGetSnapshot")

\* C18: for source ObjectData, if desc.rev <= 1 resolve returns
\* NoPreviousRevision without any reader call; if desc.rev > 1 it calls
\* get_snapshot(oid, desc.rev - 1) and returns exactly that snapshot's
\* element vector, whatever oid.id is.
C18_ObjectData ==
    /\ (ResolveDone /\ picker.val.custom = None
            /\ picker.val.flags.row_from = "ObjectData") =>
           ObjectDataRead(PickRowOf("ObjectData"))
    /\ (ResolverDone /\ picker.val.custom_picker = None
            /\ picker.val.flags.pick_row_from = "ObjectData") =>
           ObjectDataRead(RowFromSourceOf("ObjectData"))

C18_Witness ==
    /\ ResolveDone /\ picker.val.custom = None /\ picker.val.flags.row_from = "ObjectData"
    /\ env.desc.rev = 2 /\ env.oid.id = 0
    /\ call.ret = Ok(<<Cell32(31), Cell32(32), Cell32(33)>>)

\* C19: patch(prev, resolved, 0) returns resolved unchanged whenever
\* resolved.len() = prev.len(), for every prev length from 0 to 16
\* inclusive, the empty vector included.
C19_FullReplace ==
    (call.op = "patch" /\ env.mut_bits = 0 /\ Len(env.prev) <= 16
         /\ Len(env.resolved) = Len(env.prev)) =>
        call.ret = Ok(env.resolved)

\* Slot i of mut_bits (slot 0 is the MSB) is set.
SlotSet(m, i) == (m \div (2 ^ (15 - i))) % 2 = 1

\* The number of set slots of m among slots 0..i.
SlotRank(m, i) == Cardinality({k \in 0..i : SlotSet(m, k)})

PartialReplace ==
    /\ call.op = "patch" /\ env.mut_bits # 0 /\ Len(env.prev) <= 16
    /\ \A i \in Len(env.prev)..15 : ~SlotSet(env.mut_bits, i)
    /\ Len(env.resolved) = Cardinality({k \in 0..15 : SlotSet(env.mut_bits, k)})

\* C20: for a partial replace (mut_bits # 0, within the top n = prev.len()
\* bits, resolved.len() = popcount(mut_bits)) patch returns a vector of
\* length n in which slot i holds the k-th resolved element when bit 15-i
\* is the k-th set bit counted from the MSB, and prev[i] when the bit is
\* clear.
C20_PartialReplace ==
    PartialReplace =>
        /\ IsOk(call.ret)
        /\ Len(call.ret.val) = Len(env.prev)
        /\ \A i \in 0..(Len(env.prev) - 1) :
               call.ret.val[i + 1] =
                   IF SlotSet(env.mut_bits, i)
                   THEN env.resolved[SlotRank(env.mut_bits, i)]
                   ELSE env.prev[i + 1]

C20_Witness ==
    /\ PartialReplace /\ Len(env.prev) = 4 /\ env.mut_bits = 40960
    /\ call.ret = Ok(<<Cell32(101), Cell32(2), Cell32(102), Cell32(4)>>)

\* mut_bits has a bit set outside the top n bits (a slot n..15).
BeyondTop(m, n) == \E i \in n..15 : SlotSet(m, i)

PopCount(m) == Cardinality({k \in 0..15 : SlotSet(m, k)})

\* C21: patch returns InvalidElementLength when prev.len() > 16, and
\* otherwise InvalidMutBits whenever mut_bits has a bit set outside the top
\* n = prev.len() bits (every set bit when n = 0); no vector is returned.
C21_PatchInputErrors ==
    call.op = "patch" =>
        /\ Len(env.prev) > 16 => call.ret = Err("InvalidElementLength", <<>>)
        /\ (Len(env.prev) <= 16 /\ BeyondTop(env.mut_bits, Len(env.prev))) =>
               call.ret = Err("InvalidMutBits", <<>>)

\* C22: for prev.len() <= 16 and mut_bits within the top prev.len() bits,
\* patch returns ResultLengthMismatch whenever popcount(mut_bits) differs
\* from resolved.len().
C22_LengthMismatch ==
    (/\ call.op = "patch" /\ Len(env.prev) <= 16
     /\ ~BeyondTop(env.mut_bits, Len(env.prev))
     /\ PopCount(env.mut_bits) # Len(env.resolved)) =>
        call.ret = Err("ResultLengthMismatch", <<>>)

ReaderDone == call.op = "get_snapshot"

SotaKey == ObjectKey("Sota", env.oid, 0)

\* The storage holds a whole record of the variant with index idx under key.
Holds(key, idx) ==
    key \in DOMAIN env.store /\ env.store[key].idx = idx /\ env.store[key].complete

HeldSota == Holds(SotaKey, 0)

SotaRev == env.store[SotaKey].body.desc.rev

HeldSnapshot(rev) == Holds(ObjectKey("Snapshot", env.oid, rev), 1)

\* The (descriptor, elements) of the snapshot stored at exactly rev.
SnapshotAt(rev) ==
    LET body == env.store[ObjectKey("Snapshot", env.oid, rev)].body
    IN  <<body.desc, body.elems>>

\* The call returned the snapshot stored at exactly rev, or failed when the
\* storage holds none there.
ReturnedExactly(rev) ==
    IF HeldSnapshot(rev) THEN call.ret = Ok(SnapshotAt(rev)) ELSE call.ret.tag = "Err"

\* C23: get_snapshot(oid, 0) returns what get_snapshot(oid, r) returns for
\* the rev r of the object's Sota record (the snapshot stored at r) and
\* fails when there is no Sota record; for rev # 0 the Sota key is not read
\* and the snapshot stored at exactly that rev is returned.
C23_RevZeroIsCurrent ==
    ReaderDone =>
        /\ (env.rev = 0 /\ HeldSota) =>
               /\ call.ret = StateReader_get_snapshot(env.store, env.oid, SotaRev).ret
               /\ SotaRev # 0 => ReturnedExactly(SotaRev)
        /\ (env.rev = 0 /\ ~HeldSota) => call.ret.tag = "Err"
        /\ (env.rev = 0 /\ SotaKey \notin DOMAIN env.store) =>
               call.ret = Err("ProviderError", "ItemNotFound")
        /\ env.rev # 0 =>
               /\ \A i \in 1..Len(log) : log[i] # SotaKey
               /\ ReturnedExactly(env.rev)

C23_Witness ==
    /\ ReaderDone /\ env.rev = 0 /\ HeldSota /\ SotaRev = 2 /\ HeldSnapshot(1)
    /\ call.ret = Ok(<<TheDesc(2), <<Cell32(42), Cell32(2)>>>>)
    /\ log = <<SotaKey, ObjectKey("Snapshot", env.oid, 2)>>

\* A reader call of the trace that the reader answered with a failure.
FailedReaderCall(entry) ==
    \/ entry.fn = "get_matter" /\ ~IsOk(Reader_get_matter(env.reader, entry.args[1]))
    \/ entry.fn = "get_snapshot"
           /\ ~IsOk(Reader_get_snapshot(env.reader, entry.args[1], entry.args[2]))

ReaderErrorOf(entry) ==
    IF entry.fn = "get_matter" THEN Err("StateReaderGetMatter", <<>>)
    ELSE Err("StateReaderGetSnapshot", <<>>)

\* C24: every call of ElementPicker::resolve returns a complete element
\* vector or an ElementError and never aborts, whatever the reader holds (a
\* set/kind snapshot with fewer than two elements, a reader failure, an
\* embedded PERM collection with cols > 0); a reader failure is returned as
\* StateReaderGetMatter or StateReaderGetSnapshot.
C24_ResolveNeverAborts ==
    ResolveDone =>
        /\ call.ret.tag \in {"Ok", "Err"}
        /\ \A i \in 1..Len(log) : FailedReaderCall(log[i]) => call.ret = ReaderErrorOf(log[i])

CustomDone == ResolveDone /\ picker.val.custom # None

Picks == picker.val.custom.val.picks

NoRow == [has |-> FALSE, row |-> <<>>]

\* Row max(0, oid.id - 1) of the collection the reader holds for `hash`,
\* read from the blob's bytes, when that is an ENUM with such a row.
CollectionRow(hash) ==
    IF /\ hash \in DOMAIN env.reader.matters
       /\ ValidEnum(env.reader.matters[hash])
       /\ RowIndex < RowsOf(env.reader.matters[hash].val.blob)
    THEN [has |-> TRUE, row |-> EnumRowOf(env.reader.matters[hash].val.blob, RowIndex)]
    ELSE NoRow

\* The row of the collection named by element 1 of the snapshot at `key`.
DataRow(key) ==
    IF /\ key \in DOMAIN env.reader.snapshots
       /\ IsOk(env.reader.snapshots[key])
       /\ Len(env.reader.snapshots[key].val.elems) >= 2
    THEN CollectionRow(env.reader.snapshots[key].val.elems[2])
    ELSE NoRow

\* The row a source stands for in this call, when it has one.
SourceRow(src) ==
    CASE src = "HereElements" -> [has |-> TRUE, row |-> picker.val.here_elems]
      [] src = "HereCollection" ->
            IF picker.val.here_coll = None THEN NoRow
            ELSE CollectionRow(picker.val.here_coll.val)
      [] src = "SetData" -> DataRow(SetKey)
      [] src = "KindData" -> DataRow(KindKey)
      [] src = "ObjectData" ->
            IF /\ env.desc.rev > 1
               /\ <<env.oid, env.desc.rev - 1>> \in DOMAIN env.reader.snapshots
               /\ IsOk(env.reader.snapshots[<<env.oid, env.desc.rev - 1>>])
            THEN [has |-> TRUE,
                  row |-> env.reader.snapshots[<<env.oid, env.desc.rev - 1>>].val.elems]
            ELSE NoRow

\* Instruction j has a source row and its idx lies inside it.
Picked(j) == SourceRow(Picks[j].src).has /\ Picks[j].idx < Len(SourceRow(Picks[j].src).row)

\* Instruction j has a source row and its idx lies outside it.
OutOfRow(j) == SourceRow(Picks[j].src).has /\ Picks[j].idx >= Len(SourceRow(Picks[j].src).row)

\* A successful resolve with a custom picker returns one element per
\* instruction: element idx_j of the row of src_j, in instruction order.
CustomResult ==
    IsOk(call.ret) =>
        /\ Len(call.ret.val) = Len(Picks)
        /\ \A j \in 1..Len(Picks) :
               Picked(j) /\ call.ret.val[j] = SourceRow(Picks[j].src).row[Picks[j].idx + 1]

\* C25 as stated: with a custom picker of k instructions a successful
\* resolve returns exactly k elements, the j-th being element idx_j of the
\* row of src_j at row max(0, oid.id - 1), whatever flags.row_from is; and
\* if any idx_j is >= the length of its source row, resolve fails with
\* ColOutOfBounds.
C25_AnyIdxOutOfBounds ==
    CustomDone =>
        /\ CustomResult
        /\ (\E j \in 1..Len(Picks) : OutOfRow(j)) => call.ret = Err("ColOutOfBounds", <<>>)

\* C25, amended: as above, but resolve fails with ColOutOfBounds when the
\* first instruction that does not pick its element has an idx >= the
\* length of its source row; a failure of an earlier instruction is
\* returned instead.  When every instruction picks its element resolve
\* succeeds.
C25_CustomPicker ==
    CustomDone =>
        /\ CustomResult
        /\ (\A j \in 1..Len(Picks) : Picked(j)) => IsOk(call.ret)
        /\ \A j \in 1..Len(Picks) :
               (OutOfRow(j) /\ \A i \in 1..(j - 1) : Picked(i)) =>
                   call.ret = Err("ColOutOfBounds", <<>>)

C25_Witness ==
    /\ CustomDone /\ picker.val.flags.row_from = "ObjectData"
    /\ Picks = <<[src |-> "SetData", idx |-> 0], [src |-> "KindData", idx |-> 0],
                 [src |-> "SetData", idx |-> 0]>>
    /\ env.oid.id = 2
    /\ IsOk(call.ret) /\ Len(call.ret.val) = 3
    /\ call.ret.val[1] = BlobBytes(env.reader.matters[DataHash].val.blob, 64, 96)

NewDone == picker # None /\ env.impl = "ElementPicker"

\* The flags word of the call, read bit by bit.
WordNibble == env.flags.lo % 16

WordCustom == (env.flags.lo \div 16) % 2 = 1

WordHere == WordNibble = 1

\* The picker program is there and decodes.
ProgramDecodes == env.elems # <<>> /\ IsOk(PickMany_decode(Last(env.elems)))

\* The number of elements left after the picker program has been popped.
AfterCustom == IF WordCustom THEN Len(env.elems) - 1 ELSE Len(env.elems)

\* The number of elements left after the collection hash has been popped.
AfterHere == IF WordHere THEN AfterCustom - 1 ELSE AfterCustom

\* C26: ElementPicker::new splits the caller's list from the back: with
\* flags.custom the last element is the picker program (NoCustomPicker for
\* an empty list); then with flags.here_coll the last remaining element is
\* the collection hash (NoHereCollection when none remains); here_elems is
\* the remaining prefix in the original order, and all of elems when
\* neither flag is set.
C26_NewSplitsFromBack ==
    (NewDone /\ WordNibble \in {0, 1, 2, 4, 8}) =>
        /\ (WordCustom /\ env.elems = <<>>) => picker = Err("NoCustomPicker", <<>>)
        /\ ((WordCustom => ProgramDecodes) /\ WordHere /\ AfterCustom = 0) =>
               picker = Err("NoHereCollection", <<>>)
        /\ ((WordCustom => ProgramDecodes) /\ AfterHere >= 0) => IsOk(picker)
        /\ IsOk(picker) =>
               /\ AfterHere >= 0
               /\ picker.val.here_elems = SubSeq(env.elems, 1, AfterHere)
               /\ picker.val.here_coll =
                      (IF WordHere THEN Some(env.elems[AfterCustom]) ELSE None)
               /\ picker.val.custom =
                      (IF WordCustom THEN Some(PickMany_decode(Last(env.elems)).val) ELSE None)
        /\ (~WordCustom /\ ~WordHere) => (IsOk(picker) /\ picker.val.here_elems = env.elems)

C26_Witness ==
    /\ NewDone /\ WordCustom /\ WordHere
    /\ env.elems = <<X, HereHash, PickerBuffer(<<240, 225>>)>>
    /\ IsOk(picker)
    /\ picker.val.here_elems = <<X>>
    /\ picker.val.here_coll = Some(HereHash)
    /\ Len(picker.val.custom.val.picks) = 2

FlagsDecoded == call.op = "PickerFlags::decode"

\* C27: PickerFlags::decode(v) succeeds exactly when v & 0xF is one of
\* {0,1,2,4,8} and fails with InvalidElementSource otherwise; on success
\* mut_bits = v >> 16, custom = bit 4, row_from = the source of the low
\* nibble, here_coll = (row_from = HereCollection), and bits 5..15 of v
\* have no effect.
C27_FlagsDecode ==
    FlagsDecoded =>
        LET v == call.args[1]
        IN  /\ IF v.lo % 16 \in {0, 1, 2, 4, 8}
               THEN /\ IsOk(call.ret)
                    /\ call.ret.val.mut_bits = v.hi
                    /\ call.ret.val.custom = ((v.lo \div 16) % 2 = 1)
                    /\ SrcNibble(call.ret.val.row_from) = v.lo % 16
                    /\ call.ret.val.here_coll = (call.ret.val.row_from = "HereCollection")
               ELSE call.ret = Err("InvalidElementSource", <<>>)
            /\ call.ret = PickerFlags_decode(U32(v.hi, v.lo % 32))

C27_Witness ==
    /\ FlagsDecoded /\ call.args[2] = "received"
    /\ call.args[1] = U32(40960, 65504 + 8)
    /\ call.ret = Ok([mut_bits |-> 40960, custom |-> FALSE, here_coll |-> FALSE,
                      row_from |-> "ObjectData"])

\* The header checks shared by the two codecs, in order, for a blob parsed
\* as the codec of `magic`.
HeaderChecksInOrder(magic) ==
    IF blob.len < 32 THEN IsErr(parsed, "BadHeader")
    ELSE IF BlobBytes(blob, 0, 4) # magic THEN IsErr(parsed, "BadMagic")
    ELSE IF Hi4(BlobAt(blob, 4)) # 1 THEN IsErr(parsed, "BadVersion")
    ELSE IF RawAux > 8 THEN IsErr(parsed, "BadAuxCount")
    ELSE IF RawCols > 16 THEN IsErr(parsed, "BadColCount")
    ELSE TRUE

HeaderOrder ==
    /\ pc = "enum" => HeaderChecksInOrder(ENUM_MAGIC)
    /\ pc = "perm" => HeaderChecksInOrder(PERM_MAGIC)
    /\ (pc \in {"enum", "perm"} /\ IsOk(parsed)) =>
           (Hi4(BlobAt(blob, 4)) = 1 /\ RawAux <= 8 /\ RawCols <= 16)

\* A PERM blob that passes the five checks and has columns but fewer than
\* 64 bytes.
PermWithoutHeights ==
    pc = "perm" /\ PrefixValid(PERM_MAGIC) /\ RawCols > 0 /\ blob.len < 64

\* C28 as stated: ENUM and PERM header parsing accept only version 1,
\* aux <= 8 and cols <= 16, checked in this order: fewer than 32 bytes is
\* BadHeader, else a wrong magic BadMagic, else hi4(byte 4) # 1 BadVersion,
\* else lo4(byte 4) > 8 BadAuxCount, else byte 5 > 16 BadColCount; and a
\* PERM with cols > 0 and fewer than 64 bytes fails with BadHeader.
C28_ShortPermIsBadHeader ==
    /\ HeaderOrder
    /\ PermWithoutHeights => IsErr(parsed, "BadHeader")

\* C28, amended: the order of the five checks as above; a PERM with
\* cols > 0 and fewer than 64 bytes fails with BadHeader when its aux and
\* column type arrays are well formed, and with BadAuxTypes or BadColTypes
\* when they are not.
C28_HeaderCheckOrder ==
    /\ HeaderOrder
    /\ PermWithoutHeights =>
           IF AuxTypesBad THEN IsErr(parsed, "BadAuxTypes")
           ELSE IF ColTypesBad THEN IsErr(parsed, "BadColTypes")
           ELSE IsErr(parsed, "BadHeader")

C28_Witness ==
    /\ PermWithoutHeights /\ ~AuxTypesBad /\ ~ColTypesBad
    /\ blob.len = 63 /\ RawCols = 2
    /\ IsErr(parsed, "BadHeader")

\* C29: EnumMatter::from rejects every ENUM blob in which an active aux
\* type byte is neither INFO (0xFF) nor a simple-matter type; in an
\* accepted ENUM every active aux type is INFO or a simple-matter type.
C29_AuxTypesInfoOrSimple ==
    EnumParsed =>
        \A i \in 0..(RawAux - 1) :
            BlobAt(blob, 8 + i) = INFO \/ SimpleMatter_test(BlobAt(blob, 8 + i))

\* C30: for every picker program p of at most 16 instructions with valid
\* sources PickMany::decode(p.encode()) succeeds and yields the same
\* instructions (same length, same src and idx in order); no encoded
\* instruction byte is zero and encode leaves bytes 16..32 zero.
C30_PickManyRoundTrip ==
    (call.op = "PickMany::decode" /\ wire.via = "encode") =>
        /\ IsOk(call.ret)
        /\ Len(call.ret.val.picks) = Len(sent.val.picks)
        /\ \A i \in 1..Len(sent.val.picks) :
               /\ call.ret.val.picks[i].src = sent.val.picks[i].src
               /\ call.ret.val.picks[i].idx = sent.val.picks[i].idx
               /\ wire.val[i] # 0
        /\ \A i \in 17..32 : wire.val[i] = 0

C30_Witness ==
    /\ call.op = "PickMany::decode" /\ wire.via = "encode"
    /\ Len(sent.val.picks) = 16
    /\ sent.val.picks[15] = [src |-> "HereElements", idx |-> 0]
    /\ sent.val.picks[16] = [src |-> "ObjectData", idx |-> 15]
    /\ IsOk(call.ret) /\ call.ret.val.picks = sent.val.picks
    /\ wire.val[16] = 127

====
